---- MODULE Spec2Model ----
(***************************************************************************)
(* Executable model objects of robot.running.model: the body items (VAR,   *)
(* RETURN, CONTINUE, BREAK, ERROR, FOR, WHILE, IF, TRY, keyword calls),    *)
(* their run methods, and the runners, status reporter and variable        *)
(* scopes they delegate to.                                                *)
(*                                                                         *)
(* Strings the code inspects character by character (scope tokens,         *)
(* variable values) are sequences of atoms: an atom is one character or    *)
(* one variable reference such as "${s}".  Messages are plain strings.     *)
(***************************************************************************)
EXTENDS Integers, Sequences, FiniteSets, TLC

(***************************************************************************)
(* Bounds                                                                  *)
(***************************************************************************)
MaxValues == 2
MaxLimit == 2
MaxCond == 3

(***************************************************************************)
(* Python values                                                           *)
(***************************************************************************)
None == "<None>"
NoneSeq == << "<None>" >>

\* bool(x) is False for None and for the empty string
Falsy(s) == s = None \/ s = ""
FalsySeq(s) == s = NoneSeq \/ s = << >>

RECURSIVE Join(_)
Join(s) == IF s = << >> THEN "" ELSE Head(s) \o Join(Tail(s))

\* U+017F LATIN SMALL LETTER LONG S: str.upper() gives 'S', str.lower()
\* leaves it alone.
LongS == "<U+017F>"

Lowers == << "a", "b", "c", "e", "g", "i", "k", "l", "o", "s", "t", "u" >>
Uppers == << "A", "B", "C", "E", "G", "I", "K", "L", "O", "S", "T", "U" >>

CharUpper(c) ==
    IF \E i \in 1..Len(Lowers) : Lowers[i] = c
    THEN Uppers[CHOOSE i \in 1..Len(Lowers) : Lowers[i] = c]
    ELSE IF c = LongS THEN "S" ELSE c

CharLower(c) ==
    IF \E i \in 1..Len(Uppers) : Uppers[i] = c
    THEN Lowers[CHOOSE i \in 1..Len(Uppers) : Uppers[i] = c]
    ELSE c

StrUpper(s) == [i \in 1..Len(s) |-> CharUpper(s[i])]
StrLower(s) == [i \in 1..Len(s) |-> CharLower(s[i])]

(***************************************************************************)
(* Outcomes of running a node: normal completion, a jump signal, or a      *)
(* failure of some exception class with a message.                         *)
(***************************************************************************)
Pass == [k |-> "pass", cls |-> "", msg |-> ""]
BreakLoop == [k |-> "break", cls |-> "BreakLoop", msg |-> ""]
ContinueLoop == [k |-> "continue", cls |-> "ContinueLoop", msg |-> ""]
ReturnFromKeyword == [k |-> "return", cls |-> "ReturnFromKeyword", msg |-> ""]
Failure(cls, msg) == [k |-> "fail", cls |-> cls, msg |-> msg]
DataError(msg) == Failure("DataError", msg)
VariableError(msg) == Failure("VariableError", msg)
NoOutcome == [k |-> "none", cls |-> "", msg |-> ""]

IsJump(o) == o.k \in {"break", "continue", "return"}

(***************************************************************************)
(* Variable scopes.  One store per scope; the local scope is a stack with  *)
(* one frame per active keyword call.  Every entry remembers the number of *)
(* the setter call that wrote it (0 for variables that exist before the    *)
(* run); a read sees the most recent write among the visible stores.       *)
(***************************************************************************)
ScopeNames == {"local", "test", "suite", "global"}

VarNames == {"${x}", "${s}", "${i}", "${j}"}

Unset == [val |-> NoneSeq, seq |-> -1]

EmptyStore == [n \in VarNames |-> Unset]

Visible(variables) ==
    { variables.local[Len(variables.local)], variables.test,
      variables.suite, variables["global"] }

Lookup(variables, name) ==
    LET found == { st[name] : st \in { s \in Visible(variables) : s[name] # Unset } }
    IN  IF found = {} THEN Unset
        ELSE CHOOSE e \in found : \A f \in found : f.seq <= e.seq

IsRef(atom) == atom \in VarNames

\* variables.replace_string: every variable reference in the string is
\* replaced by the value of the variable; an unknown variable is a DataError.
RECURSIVE ReplaceString(_, _)
ReplaceString(variables, s) ==
    IF s = << >> THEN [ok |-> TRUE, str |-> << >>, msg |-> ""]
    ELSE LET rest == ReplaceString(variables, Tail(s))
             a == Head(s)
         IN  IF IsRef(a) /\ Lookup(variables, a) = Unset
             THEN [ok |-> FALSE, str |-> << >>,
                   msg |-> "Variable '" \o a \o "' not found."]
             ELSE IF ~rest.ok THEN rest
             ELSE [ok |-> TRUE, msg |-> "",
                   str |-> (IF IsRef(a) THEN Lookup(variables, a).val ELSE << a >>)
                           \o rest.str]

\* set_local / set_test / set_suite / set_global
SetLocal(variables, name, entry) ==
    [variables EXCEPT !.local[Len(variables.local)][name] = entry]

\* as SetTest, with the variable kept for the whole suite
SetTest_IntoSuite(variables, name, entry) == [variables EXCEPT !.suite[name] = entry]

SetTest(variables, name, entry) == [variables EXCEPT !.test[name] = entry]
SetSuite(variables, name, entry) == [variables EXCEPT !.suite[name] = entry]
SetGlobal(variables, name, entry) == [variables EXCEPT !["global"][name] = entry]

Setter(attr, variables, name, entry) ==
    CASE attr = "set_local" -> SetLocal(variables, name, entry)
      [] attr = "set_test" -> SetTest(variables, name, entry)
      [] attr = "set_suite" -> SetSuite(variables, name, entry)
      [] attr = "set_global" -> SetGlobal(variables, name, entry)

HasAttr(attr) == attr \in {"set_local", "set_test", "set_suite", "set_global"}

\* VariableResolver.from_variable(var).resolve(variables): every value is
\* variable-substituted and the results are joined by the separator
\* (a space unless the node gives one).
RECURSIVE ResolveValues(_, _, _)
ResolveValues(variables, values, sep) ==
    IF values = << >> THEN [ok |-> TRUE, str |-> << >>, msg |-> ""]
    ELSE LET h == ReplaceString(variables, Head(values))
             t == ResolveValues(variables, Tail(values), sep)
         IN  IF ~h.ok THEN h
             ELSE IF ~t.ok THEN t
             ELSE [ok |-> TRUE, msg |-> "",
                   str |-> IF Tail(values) = << >> THEN h.str
                           ELSE h.str \o sep \o t.str]

Resolve(variables, node) ==
    ResolveValues(variables, node.value,
                  IF node.separator = NoneSeq THEN << " " >> ELSE node.separator)

(***************************************************************************)
(* Status reporting: StatusReporter is a context manager, so the scope a   *)
(* run method opens with it is left when the block ends, however it ends.  *)
(***************************************************************************)
Enter(node, run) ==
    [ev |-> "enter", id |-> node.id, parent |-> node.parent, run |-> run, out |-> NoOutcome,
     tag |-> node.type, n |-> 0]
Exit(node, run, out) ==
    [ev |-> "exit", id |-> node.id, parent |-> node.parent, run |-> run, out |-> out,
     tag |-> node.type, n |-> 0]
\* not a scope: marks that a runner starts the n-th execution of a body of
\* the node (tag: ITERATION, or the type of the IF/TRY branch)
BodyStart(node, run, tag, n) ==
    [ev |-> "body", id |-> node.id, parent |-> node.parent, run |-> run, out |-> NoOutcome,
     tag |-> tag, n |-> n]

Leaf(node, run, out, calls) ==
    [out |-> out, events |-> << Enter(node, run), Exit(node, run, out) >>, calls |-> calls]

(***************************************************************************)
(* Var                                                                     *)
(***************************************************************************)
InvalidScope(msg) == [ok |-> FALSE, scope |-> << >>, msg |-> "Invalid VAR scope: " \o msg]

\* as Var_get_scope, with the TASK alias forgotten
Var_get_scope_NoAlias(node, variables) ==
    IF FalsySeq(node.scope) THEN [ok |-> TRUE, scope |-> << "l", "o", "c", "a", "l" >>, msg |-> ""]
    ELSE LET r == ReplaceString(variables, node.scope)
         IN  IF ~r.ok THEN InvalidScope(r.msg)
             ELSE IF Join(StrUpper(r.str)) \in {"GLOBAL", "SUITE", "TEST", "LOCAL", "TASK"}
                  THEN [ok |-> TRUE, scope |-> StrLower(r.str), msg |-> ""]
             ELSE InvalidScope("Value '" \o Join(r.str) \o "' is not accepted. Valid values are "
                               \o "'GLOBAL', 'SUITE', 'TEST', 'TASK' and 'LOCAL'.")

Var_get_scope(node, variables) ==
    IF FalsySeq(node.scope) THEN [ok |-> TRUE, scope |-> << "l", "o", "c", "a", "l" >>, msg |-> ""]
    ELSE LET r == ReplaceString(variables, node.scope)
         IN  IF ~r.ok THEN InvalidScope(r.msg)
             ELSE IF Join(StrUpper(r.str)) = "TASK"
                  THEN [ok |-> TRUE, scope |-> << "t", "e", "s", "t" >>, msg |-> ""]
             ELSE IF Join(StrUpper(r.str)) \in {"GLOBAL", "SUITE", "TEST", "LOCAL"}
                  THEN [ok |-> TRUE, scope |-> StrLower(r.str), msg |-> ""]
             ELSE InvalidScope("Value '" \o Join(r.str) \o "' is not accepted. Valid values are "
                               \o "'GLOBAL', 'SUITE', 'TEST', 'TASK' and 'LOCAL'.")

SetCall(attr, name, value) == [attr |-> attr, name |-> name, value |-> value]

\* as VarRun, with the resolving error handed on as it is
VarRun_ErrorNotWrapped(node, dry_run, variables, run) ==
    IF ~run THEN Leaf(node, run, Pass, << >>)
    ELSE IF ~Falsy(node.error) THEN Leaf(node, run, DataError(node.error), << >>)
    ELSE IF dry_run THEN Leaf(node, run, Pass, << >>)
    ELSE LET sc == Var_get_scope(node, variables)
             attr == "set_" \o Join(sc.scope)
             val == Resolve(variables, node)
         IN  IF ~sc.ok THEN Leaf(node, run, DataError(sc.msg), << >>)
             ELSE IF ~HasAttr(attr)
                  THEN Leaf(node, run, Failure("AttributeError", attr), << >>)
             ELSE IF ~val.ok
                  THEN Leaf(node, run, DataError(val.msg), << >>)
             ELSE Leaf(node, run, Pass, << SetCall(attr, node.name, val.str) >>)

VarRun(node, dry_run, variables, run) ==
    IF ~run THEN Leaf(node, run, Pass, << >>)
    ELSE IF ~Falsy(node.error) THEN Leaf(node, run, DataError(node.error), << >>)
    ELSE IF dry_run THEN Leaf(node, run, Pass, << >>)
    ELSE LET sc == Var_get_scope(node, variables)
             attr == "set_" \o Join(sc.scope)
             val == Resolve(variables, node)
         IN  IF ~sc.ok THEN Leaf(node, run, DataError(sc.msg), << >>)
             ELSE IF ~HasAttr(attr)
                  THEN Leaf(node, run, Failure("AttributeError", attr), << >>)
             ELSE IF ~val.ok
                  THEN Leaf(node, run,
                            VariableError("Setting variable '" \o node.name \o "' failed: " \o val.msg),
                            << >>)
             ELSE Leaf(node, run, Pass, << SetCall(attr, node.name, val.str) >>)

(***************************************************************************)
(* Return, Continue, Break, Error                                          *)
(***************************************************************************)
\* as ReturnRun, raising in dry-run mode too
ReturnRun_AlwaysRaises(node, dry_run, run) ==
    IF ~run THEN Leaf(node, run, Pass, << >>)
    ELSE IF ~Falsy(node.error) THEN Leaf(node, run, DataError(node.error), << >>)
    ELSE Leaf(node, run, ReturnFromKeyword, << >>)

ReturnRun(node, dry_run, run) ==
    IF ~run THEN Leaf(node, run, Pass, << >>)
    ELSE IF ~Falsy(node.error) THEN Leaf(node, run, DataError(node.error), << >>)
    ELSE IF ~dry_run THEN Leaf(node, run, ReturnFromKeyword, << >>)
    ELSE Leaf(node, run, Pass, << >>)

\* as ContinueRun, leaving the status scope only when the block ends normally
ContinueRun_ScopeLeftOpen(node, dry_run, run) ==
    IF ~run THEN Leaf(node, run, Pass, << >>)
    ELSE IF ~Falsy(node.error) THEN Leaf(node, run, DataError(node.error), << >>)
    ELSE IF ~dry_run
         THEN [out |-> ContinueLoop, events |-> << Enter(node, run) >>, calls |-> << >>]
    ELSE Leaf(node, run, Pass, << >>)

ContinueRun(node, dry_run, run) ==
    IF ~run THEN Leaf(node, run, Pass, << >>)
    ELSE IF ~Falsy(node.error) THEN Leaf(node, run, DataError(node.error), << >>)
    ELSE IF ~dry_run THEN Leaf(node, run, ContinueLoop, << >>)
    ELSE Leaf(node, run, Pass, << >>)

\* as BreakRun, looking at the error only in dry-run mode
BreakRun_RaisesFirst(node, dry_run, run) ==
    IF ~run THEN Leaf(node, run, Pass, << >>)
    ELSE IF ~dry_run THEN Leaf(node, run, BreakLoop, << >>)
    ELSE IF ~Falsy(node.error) THEN Leaf(node, run, DataError(node.error), << >>)
    ELSE Leaf(node, run, Pass, << >>)

BreakRun(node, dry_run, run) ==
    IF ~run THEN Leaf(node, run, Pass, << >>)
    ELSE IF ~Falsy(node.error) THEN Leaf(node, run, DataError(node.error), << >>)
    ELSE IF ~dry_run THEN Leaf(node, run, BreakLoop, << >>)
    ELSE Leaf(node, run, Pass, << >>)

\* as ErrorRun, with the message replaced by a general one
ErrorRun_GeneralMessage(node, run) ==
    IF run THEN Leaf(node, run, DataError("Parsing failed."), << >>)
    ELSE Leaf(node, run, Pass, << >>)

ErrorRun(node, run) ==
    IF run THEN Leaf(node, run, DataError(node.error), << >>)
    ELSE Leaf(node, run, Pass, << >>)

(***************************************************************************)
(* Nodes.  Every node has a type, an id, the id of the node whose status   *)
(* scope encloses it (0 directly under a test) and, where the class has    *)
(* one, a pre-recorded error.                                              *)
(***************************************************************************)
Var(id, parent, name, value, scope, separator, error) ==
    [type |-> "VAR", id |-> id, parent |-> parent, name |-> name, value |-> value,
     scope |-> scope, separator |-> separator, error |-> error]
Return(id, parent, error) == [type |-> "RETURN", id |-> id, parent |-> parent, error |-> error]
Continue(id, parent, error) == [type |-> "CONTINUE", id |-> id, parent |-> parent, error |-> error]
Break(id, parent, error) == [type |-> "BREAK", id |-> id, parent |-> parent, error |-> error]
Error(id, parent, error) == [type |-> "ERROR", id |-> id, parent |-> parent, error |-> error]
\* A keyword call; what it does is decided outside this module: it passes,
\* fails with a message, reads a variable, or runs a user keyword body.
Keyword(id, parent, does, arg, body) ==
    [type |-> "KEYWORD", id |-> id, parent |-> parent, does |-> does, arg |-> arg, body |-> body]
For(id, parent, assign, flavor, values, start, mode, fill, body, error) ==
    [type |-> "FOR", id |-> id, parent |-> parent, assign |-> assign, flavor |-> flavor,
     values |-> values, start |-> start, mode |-> mode, fill |-> fill, body |-> body,
     error |-> error]
While(id, parent, condition, limit, on_limit, on_limit_message, body, error) ==
    [type |-> "WHILE", id |-> id, parent |-> parent, condition |-> condition, limit |-> limit,
     on_limit |-> on_limit, on_limit_message |-> on_limit_message, body |-> body,
     error |-> error]
IfBranch(type, condition, body) == [type |-> type, condition |-> condition, body |-> body]
If(id, parent, branches, error) ==
    [type |-> "IF", id |-> id, parent |-> parent, body |-> branches, error |-> error]
TryBranch(type, patterns, pattern_type, body) ==
    [type |-> type, patterns |-> patterns, pattern_type |-> pattern_type, body |-> body]
Try(id, parent, branches, error) ==
    [type |-> "TRY", id |-> id, parent |-> parent, body |-> branches, error |-> error]

(***************************************************************************)
(* FOR: expansion of the values into rounds, by flavor.  A round is the    *)
(* tuple of values bound to the assignment targets.                        *)
(***************************************************************************)
Digits == << "0", "1", "2", "3", "4", "5", "6", "7", "8", "9" >>
IntStr(i) == IF i \in 0..9 THEN Digits[i + 1] ELSE "N"
\* int() of a one-digit string
ParseInt(s) == CHOOSE i \in 0..9 : Digits[i + 1] = s

Min(a, b) == IF a < b THEN a ELSE b
Max(a, b) == IF a > b THEN a ELSE b

RECURSIVE MinLen(_)
MinLen(seqs) ==
    IF Len(seqs) = 1 THEN Len(seqs[1]) ELSE Min(Len(Head(seqs)), MinLen(Tail(seqs)))
RECURSIVE MaxLen(_)
MaxLen(seqs) ==
    IF Len(seqs) = 1 THEN Len(seqs[1]) ELSE Max(Len(Head(seqs)), MaxLen(Tail(seqs)))

\* IN RANGE: one to three numbers, as range(start, stop, step) with step > 0
RangeArgs(values) ==
    LET v == [c \in 1..Len(values) |-> ParseInt(Join(values[c]))]
    IN  CASE Len(v) = 1 -> << 0, v[1], 1 >>
          [] Len(v) = 2 -> << v[1], v[2], 1 >>
          [] Len(v) = 3 -> << v[1], v[2], v[3] >>
RangeLen(a) == IF a[2] <= a[1] THEN 0 ELSE (a[2] - a[1] + a[3] - 1) \div a[3]

\* as ForRounds, with IN ZIP always stopping at the shortest list
ForRounds_ZipShortest(node) ==
    CASE node.flavor = "IN" ->
            [r \in 1..Len(node.values) |-> << node.values[r] >>]
      [] node.flavor = "IN RANGE" ->
            LET a == RangeArgs(node.values)
            IN  [r \in 1..RangeLen(a) |-> << << IntStr(a[1] + (r - 1) * a[3]) >> >>]
      [] node.flavor = "IN ENUMERATE" ->
            [r \in 1..Len(node.values) |->
                << << IntStr(r - 1 + (IF node.start = None THEN 0 ELSE ParseInt(node.start))) >>,
                   node.values[r] >>]
      \* every value is a list, written as the sequence of its items
      [] node.flavor = "IN ZIP" ->
            IF node.values = << >> THEN << >>
            ELSE LET n == MinLen(node.values)
                 IN  [r \in 1..n |->
                        [c \in 1..Len(node.values) |->
                            IF r <= Len(node.values[c]) THEN << node.values[c][r] >>
                            ELSE node.fill]]

ForRounds(node) ==
    CASE node.flavor = "IN" ->
            [r \in 1..Len(node.values) |-> << node.values[r] >>]
      [] node.flavor = "IN RANGE" ->
            LET a == RangeArgs(node.values)
            IN  [r \in 1..RangeLen(a) |-> << << IntStr(a[1] + (r - 1) * a[3]) >> >>]
      [] node.flavor = "IN ENUMERATE" ->
            [r \in 1..Len(node.values) |->
                << << IntStr(r - 1 + (IF node.start = None THEN 0 ELSE ParseInt(node.start))) >>,
                   node.values[r] >>]
      \* every value is a list, written as the sequence of its items
      [] node.flavor = "IN ZIP" ->
            IF node.values = << >> THEN << >>
            ELSE LET n == IF node.mode = "LONGEST" THEN MaxLen(node.values)
                          ELSE MinLen(node.values)
                 IN  [r \in 1..n |->
                        [c \in 1..Len(node.values) |->
                            IF r <= Len(node.values[c]) THEN << node.values[c][r] >>
                            ELSE node.fill]]

(***************************************************************************)
(* WHILE: the condition is evaluated outside this module; here it is       *)
(* absent (loop unconditionally) or true for the first `condition` rounds. *)
(***************************************************************************)
ShouldRun(node, n) == node.condition = None \/ n < ParseInt(node.condition)
\* as Limit, with one more round allowed
Limit_OneMore(node) == ParseInt(node.limit) + 1

Limit(node) == ParseInt(node.limit)

LimitMessage(node) ==
    IF node.on_limit_message # None THEN node.on_limit_message
    ELSE "WHILE loop was aborted because it did not finish within the limit of "
         \o node.limit \o " iterations. Use the 'limit' argument to "
         \o "increase or remove the limit if needed."

LimitExceeded(node) == Failure("LimitExceeded", LimitMessage(node))

(***************************************************************************)
(* TRY: an EXCEPT branch matches when it has no patterns or one of its     *)
(* patterns matches the message                                            *)
(***************************************************************************)
PatternMatches(branch, pattern, msg) ==
    IF branch.pattern_type = "glob" THEN pattern = "*" \/ pattern = msg
    ELSE pattern = msg

BranchMatches(branch, msg) ==
    \/ branch.patterns = << >>
    \/ \E p \in 1..Len(branch.patterns) : PatternMatches(branch, branch.patterns[p], msg)

BranchesOf(node, type) == { b \in 1..Len(node.body) : node.body[b].type = type }
HasBranch(node, type) == BranchesOf(node, type) # {}
BranchOf(node, type) == node.body[CHOOSE b \in BranchesOf(node, type) : TRUE]

MatchingExcepts(node, msg) ==
    { b \in BranchesOf(node, "EXCEPT") : BranchMatches(node.body[b], msg) }
FirstOf(S) == CHOOSE b \in S : \A c \in S : b <= c

(***************************************************************************)
(* The run methods of the nodes that own a body hand the node to a runner. *)
(* A frame is one runner activation: the runner class, the node, the run   *)
(* flag it was given, and the runner's progress.                           *)
(***************************************************************************)
Runner(class, node, run) ==
    [kind |-> "node", runner |-> class, node |-> node, run |-> run, st |-> "new",
     n |-> 0, pend |-> NoOutcome]

ForRun(node, run) == Runner("ForRunner", node, run)
WhileRun(node, run) == Runner("WhileRunner", node, run)
IfRun(node, run) == Runner("IfRunner", node, run)
TryRun(node, run) == Runner("TryRunner", node, run)
KeywordRun(node, run) == Runner("KeywordRunner", node, run)

BodyFrame(items, run) == [kind |-> "body", items |-> items, i |-> 1, run |-> run]

\* IfRunner: the first IF / ELSE IF branch whose condition is true, or the
\* ELSE branch when it is reached; a condition that cannot be evaluated
\* fails the node.
RECURSIVE IfSelect(_, _)
IfSelect(node, b) ==
    IF b > Len(node.body) THEN [k |-> "none", b |-> 0]
    ELSE IF node.body[b].type = "ELSE" \/ node.body[b].condition = "True"
         THEN [k |-> "run", b |-> b]
    ELSE IF node.body[b].condition = "False" THEN IfSelect(node, b + 1)
    ELSE [k |-> "fail", b |-> b]

\* a BREAK, CONTINUE or RETURN that arrives where nothing can catch it
Uncaught(out) == Failure("DataError", "Invalid '" \o out.cls \o "' usage.")

(***************************************************************************)
(* State                                                                   *)
(***************************************************************************)
VARIABLES
    suite,      \* the suite being run: its tests, each a body
    dry_run,    \* context.dry_run
    top_run,    \* the run flag the test bodies are run with
    ti,         \* index of the current test
    stack,      \* the active body runners and node runners, innermost last
    ret,        \* outcome handed back by the activation that just ended
    variables,  \* context.variables
    writes,     \* the setter calls made so far
    reads,      \* the variable reads made so far
    events,     \* status reporter scopes entered and left, bodies started
    results,    \* outcome of every finished test
    \* serialisation: one object or record taken through to_dict / from_dict
    cls,        \* the class whose to_dict / from_dict is used
    first,      \* what there was at the start: an object or a record
    object,     \* the object at hand
    record,     \* the record at hand
    steps,      \* the calls made so far
    \* the objects of a suite and its resource files
    suites,     \* TestSuite objects: source, resource
    resources,  \* ResourceFile objects: _source, owner, keywords
    keywords,   \* UserKeyword objects: name, embedded, owner, _setup, _teardown
    nodes,      \* TestCase objects and body items: parent
    call,       \* the last call made and what it returned
    \* calls of TestSuite.run
    pc,         \* the statement of run that is next
    settings,   \* the settings argument and local of run
    options,    \* the options argument of run
    output,     \* the local output of run
    runner,     \* the local runner of run
    globals,    \* LOGGER, logging handler, STOP_SIGNAL_MONITOR, IMPORTER, outputs made
    trace,      \* what the call in progress has done so far
    returned    \* what the calls made so far gave back

dictVars == << cls, first, object, record, steps >>
heapVars == << suites, resources, keywords, nodes, call >>
runVars == << suite, dry_run, top_run, ti, stack, ret, variables, writes, reads, events, results >>

callVars == << pc, settings, options, output, runner, globals, trace, returned >>

vars == << runVars, dictVars, heapVars, callVars >>

\* a variable that has no part in the specification at hand
Unused == << >>
DictUnused ==
    cls = Unused /\ first = Unused /\ object = Unused /\ record = Unused /\ steps = Unused
CallUnused ==
    /\ pc = Unused /\ settings = Unused /\ options = Unused /\ output = Unused
    /\ runner = Unused /\ globals = Unused /\ trace = Unused /\ returned = Unused

HeapUnused ==
    suites = Unused /\ resources = Unused /\ keywords = Unused /\ nodes = Unused /\ call = Unused

Top == stack[Len(stack)]
Pop == SubSeq(stack, 1, Len(stack) - 1)
Cur == Top.items[Top.i]

AtItem(type) ==
    /\ stack # << >>
    /\ Top.kind = "body"
    /\ ret = NoOutcome
    /\ Top.i <= Len(Top.items)
    /\ Cur.type = type

AtRunner(class) ==
    /\ stack # << >>
    /\ Top.kind = "node"
    /\ Top.runner = class

Entry(value, k) == [val |-> value, seq |-> k]

RECURSIVE ApplyCalls(_, _, _)
ApplyCalls(vs, calls, base) ==
    IF calls = << >> THEN vs
    ELSE ApplyCalls(Setter(Head(calls).attr, vs, Head(calls).name,
                           Entry(Head(calls).value, base + 1)),
                    Tail(calls), base + 1)

Logged(calls, node) ==
    [c \in 1..Len(calls) |->
        [attr |-> calls[c].attr, name |-> calls[c].name, value |-> calls[c].value,
         test |-> ti, node |-> node.id]]

\* the body runner's handling of a finished child: go on after a normal
\* completion, stop and hand on anything else
LeafDone(res) ==
    /\ events' = events \o res.events
    /\ writes' = writes \o Logged(res.calls, Cur)
    /\ variables' = ApplyCalls(variables, res.calls, Len(writes))
    /\ IF res.out = Pass
       THEN stack' = [stack EXCEPT ![Len(stack)].i = @ + 1] /\ ret' = NoOutcome
       ELSE stack' = Pop /\ ret' = res.out
    /\ UNCHANGED << suite, dry_run, top_run, ti, reads, results, dictVars, heapVars, callVars >>

Push(frame) ==
    /\ stack' = Append(stack, frame)
    /\ events' = Append(events, Enter(frame.node, frame.run))
    /\ UNCHANGED << suite, dry_run, top_run, ti, ret, variables, writes, reads, results, dictVars, heapVars, callVars >>

\* the runner's status scope is left with the outcome
Finish(out) ==
    /\ events' = Append(events, Exit(Top.node, Top.run, out))
    /\ stack' = Pop
    /\ ret' = out

StartBody(frame, items, run, tag) ==
    /\ stack' = Append([stack EXCEPT ![Len(stack)] = frame], BodyFrame(items, run))
    /\ events' = Append(events, BodyStart(frame.node, run, tag, frame.n))
    /\ ret' = NoOutcome

Fixed == UNCHANGED << suite, dry_run, top_run, ti, results, dictVars, heapVars, callVars >>
NoVars == UNCHANGED << variables, writes, reads >>

(***************************************************************************)
(* Tests                                                                   *)
(***************************************************************************)
StartTest ==
    /\ stack = << >>
    /\ ret = NoOutcome
    /\ ti <= Len(suite)
    /\ stack' = << BodyFrame(suite[ti], top_run) >>
    /\ variables' = [variables EXCEPT !.test = EmptyStore, !.local = << EmptyStore >>]
    /\ UNCHANGED << suite, dry_run, top_run, ti, ret, writes, reads, events, results, dictVars, heapVars, callVars >>

EndTest ==
    /\ stack = << >>
    /\ ret # NoOutcome
    /\ results' = Append(results, IF IsJump(ret) THEN Uncaught(ret) ELSE ret)
    /\ ti' = ti + 1
    /\ ret' = NoOutcome
    /\ UNCHANGED << suite, dry_run, top_run, stack, variables, writes, reads, events, dictVars, heapVars, callVars >>

(***************************************************************************)
(* Sequential body runner                                                  *)
(***************************************************************************)
BodyEnd ==
    /\ stack # << >>
    /\ Top.kind = "body"
    /\ ret = NoOutcome
    /\ Top.i > Len(Top.items)
    /\ stack' = Pop
    /\ ret' = Pass
    /\ UNCHANGED << events >>
    /\ Fixed /\ NoVars

BodyResume ==
    /\ stack # << >>
    /\ Top.kind = "body"
    /\ ret # NoOutcome
    /\ IF ret = Pass
       THEN stack' = [stack EXCEPT ![Len(stack)].i = @ + 1] /\ ret' = NoOutcome
       ELSE stack' = Pop /\ ret' = ret
    /\ UNCHANGED << events >>
    /\ Fixed /\ NoVars

(***************************************************************************)
(* Running the item the body runner is at                                  *)
(***************************************************************************)
RunVar == AtItem("VAR") /\ LeafDone(VarRun(Cur, dry_run, variables, Top.run))
RunReturn == AtItem("RETURN") /\ LeafDone(ReturnRun(Cur, dry_run, Top.run))
RunContinue == AtItem("CONTINUE") /\ LeafDone(ContinueRun(Cur, dry_run, Top.run))
RunBreak == AtItem("BREAK") /\ LeafDone(BreakRun(Cur, dry_run, Top.run))
RunError == AtItem("ERROR") /\ LeafDone(ErrorRun(Cur, Top.run))
RunFor == AtItem("FOR") /\ Push(ForRun(Cur, Top.run))
RunWhile == AtItem("WHILE") /\ Push(WhileRun(Cur, Top.run))
RunIf == AtItem("IF") /\ Push(IfRun(Cur, Top.run))
RunTry == AtItem("TRY") /\ Push(TryRun(Cur, Top.run))

\* a keyword call that runs a user keyword
RunKeyword == AtItem("KEYWORD") /\ Cur.does = "call" /\ Push(KeywordRun(Cur, Top.run))

\* a keyword call that runs a library keyword: it passes, fails or reads
LibraryKeyword(node, run) ==
    IF node.does = "fail" /\ run /\ ~dry_run
    THEN Leaf(node, run, Failure("ExecutionFailed", node.arg), << >>)
    ELSE Leaf(node, run, Pass, << >>)

RunLibraryKeyword ==
    /\ AtItem("KEYWORD")
    /\ Cur.does # "call"
    /\ LET res == LibraryKeyword(Cur, Top.run)
           e == Lookup(variables, Cur.arg)
       IN  /\ events' = events \o res.events
           /\ reads' = IF Cur.does = "read" /\ Top.run /\ ~dry_run
                       THEN Append(reads, [test |-> ti, name |-> Cur.arg, seq |-> e.seq,
                                           val |-> e.val, at |-> Len(writes), node |-> Cur.id])
                       ELSE reads
           /\ IF res.out = Pass
              THEN stack' = [stack EXCEPT ![Len(stack)].i = @ + 1] /\ ret' = NoOutcome
              ELSE stack' = Pop /\ ret' = res.out
    /\ UNCHANGED << variables, writes >>
    /\ Fixed

(***************************************************************************)
(* KeywordRunner running a user keyword: a fresh local scope, the body,    *)
(* RETURN caught                                                           *)
(***************************************************************************)
KeywordStep ==
    /\ AtRunner("KeywordRunner")
    /\ IF Top.st = "new"
       THEN /\ StartBody([Top EXCEPT !.st = "body", !.n = 1], Top.node.body, Top.run, "KEYWORD")
            /\ variables' = [variables EXCEPT !.local = Append(@, EmptyStore)]
       ELSE /\ ret # NoOutcome
            /\ Finish(IF ret.k = "return" THEN Pass
                      ELSE IF IsJump(ret) THEN Uncaught(ret) ELSE ret)
            /\ variables' = [variables EXCEPT !.local = SubSeq(@, 1, Len(@) - 1)]
    /\ UNCHANGED << writes, reads >>
    /\ Fixed

(***************************************************************************)
(* ForRunner                                                               *)
(***************************************************************************)
Bindings(node, round) ==
    [c \in 1..Min(Len(node.assign), Len(round)) |->
        SetCall("set_local", node.assign[c], round[c])]

\* as AfterRound, with Continue ending the loop like Break
AfterRound_ContinueEnds(out) ==
    IF out.k = "pass" THEN NoOutcome
    ELSE IF out.k \in {"break", "continue"} THEN Pass
    ELSE out

\* what a loop does with the outcome of a round: go on with the next round
\* (NoOutcome) after a pass or a Continue, pass after a Break, and leave with
\* anything else
AfterRound(out) ==
    IF out.k \in {"pass", "continue"} THEN NoOutcome
    ELSE IF out.k = "break" THEN Pass
    ELSE out

ForStep ==
    /\ AtRunner("ForRunner")
    /\ LET f == Top
           rounds == ForRounds(f.node)
           calls == IF dry_run THEN << >> ELSE Bindings(f.node, rounds[f.n + 1])
       IN  IF ret = NoOutcome
           THEN IF f.run /\ ~Falsy(f.node.error)
                THEN Finish(DataError(f.node.error)) /\ NoVars
                ELSE IF ~f.run
                THEN IF f.n = 0
                     THEN StartBody([f EXCEPT !.n = 1], f.node.body, FALSE, "ITERATION") /\ NoVars
                     ELSE Finish(Pass) /\ NoVars
                ELSE IF f.n < Len(rounds)
                THEN /\ StartBody([f EXCEPT !.n = f.n + 1], f.node.body, TRUE, "ITERATION")
                     /\ variables' = ApplyCalls(variables, calls, Len(writes))
                     /\ writes' = writes \o Logged(calls, f.node)
                     /\ UNCHANGED reads
                ELSE Finish(Pass) /\ NoVars
           ELSE IF AfterRound(ret) = NoOutcome
                THEN ret' = NoOutcome /\ UNCHANGED << stack, events >> /\ NoVars
                ELSE Finish(AfterRound(ret)) /\ NoVars
    /\ Fixed

(***************************************************************************)
(* WhileRunner                                                             *)
(***************************************************************************)
WhileStep ==
    /\ AtRunner("WhileRunner")
    /\ LET f == Top
       IN  IF ret = NoOutcome
           THEN IF f.run /\ ~Falsy(f.node.error)
                THEN Finish(DataError(f.node.error))
                ELSE IF ~f.run
                THEN IF f.n = 0
                     THEN StartBody([f EXCEPT !.n = 1], f.node.body, FALSE, "ITERATION")
                     ELSE Finish(Pass)
                ELSE IF ~ShouldRun(f.node, f.n)
                THEN Finish(Pass)
                ELSE IF f.node.limit # None /\ f.n >= Limit(f.node)
                THEN IF f.node.on_limit = "pass"
                     THEN Finish(Pass)
                     ELSE Finish(LimitExceeded(f.node))
                ELSE StartBody([f EXCEPT !.n = f.n + 1], f.node.body, TRUE, "ITERATION")
           ELSE IF AfterRound(ret) = NoOutcome
                THEN ret' = NoOutcome /\ UNCHANGED << stack, events >>
                ELSE Finish(AfterRound(ret))
    /\ NoVars
    /\ Fixed

(***************************************************************************)
(* IfRunner                                                                *)
(***************************************************************************)
IfStep ==
    /\ AtRunner("IfRunner")
    /\ LET f == Top
           sel == IfSelect(f.node, 1)
       IN  IF f.st = "new"
           THEN IF f.run /\ ~Falsy(f.node.error)
                THEN Finish(DataError(f.node.error))
                ELSE IF ~f.run
                THEN IF f.node.body = << >> THEN Finish(Pass)
                     ELSE StartBody([f EXCEPT !.st = "branch", !.n = 1], f.node.body[1].body,
                                    FALSE, f.node.body[1].type)
                ELSE IF sel.k = "fail"
                THEN Finish(DataError("Invalid IF condition"))
                ELSE IF sel.k = "none"
                THEN Finish(Pass)
                ELSE StartBody([f EXCEPT !.st = "branch", !.n = 1], f.node.body[sel.b].body,
                               TRUE, f.node.body[sel.b].type)
           ELSE ret # NoOutcome /\ Finish(ret)
    /\ NoVars
    /\ Fixed

(***************************************************************************)
(* TryRunner                                                               *)
(***************************************************************************)
\* as ToFinally, with what is pending forgotten when FINALLY starts
ToFinally_DropsPending(f, pending) ==
    IF HasBranch(f.node, "FINALLY")
    THEN StartBody([f EXCEPT !.st = "FINALLY", !.pend = Pass, !.n = 1],
                   BranchOf(f.node, "FINALLY").body, TRUE, "FINALLY")
    ELSE Finish(pending)

\* after TRY, EXCEPT and ELSE: run FINALLY when there is one, keeping what
\* is pending, or leave with what is pending
ToFinally(f, pending) ==
    IF HasBranch(f.node, "FINALLY")
    THEN StartBody([f EXCEPT !.st = "FINALLY", !.pend = pending, !.n = 1],
                   BranchOf(f.node, "FINALLY").body, TRUE, "FINALLY")
    ELSE Finish(pending)

TryStep ==
    /\ AtRunner("TryRunner")
    /\ LET f == Top
           caught == MatchingExcepts(f.node, ret.msg)
       IN  CASE f.st = "new" ->
                IF f.run /\ ~Falsy(f.node.error)
                THEN Finish(DataError(f.node.error))
                ELSE IF f.node.body = << >> THEN Finish(Pass)
                ELSE StartBody([f EXCEPT !.st = IF f.run THEN "TRY" ELSE "NOT RUN", !.n = 1],
                               f.node.body[1].body, f.run, "TRY")
             [] f.st = "NOT RUN" -> ret # NoOutcome /\ Finish(ret)
             [] f.st = "TRY" ->
                /\ ret # NoOutcome
                /\ IF ret.k = "fail"
                   THEN IF caught # {}
                        THEN StartBody([f EXCEPT !.st = "EXCEPT", !.n = 1],
                                       f.node.body[FirstOf(caught)].body, TRUE, "EXCEPT")
                        ELSE ToFinally(f, ret)
                   ELSE IF ret = Pass /\ HasBranch(f.node, "ELSE")
                        THEN StartBody([f EXCEPT !.st = "ELSE", !.n = 1],
                                       BranchOf(f.node, "ELSE").body, TRUE, "ELSE")
                        ELSE ToFinally(f, ret)
             [] f.st \in {"EXCEPT", "ELSE"} -> ret # NoOutcome /\ ToFinally(f, ret)
             [] f.st = "FINALLY" ->
                /\ ret # NoOutcome
                /\ Finish(IF ret = Pass THEN f.pend ELSE ret)
    /\ NoVars
    /\ Fixed

(***************************************************************************)
(* Suites the model is run on                                              *)
(***************************************************************************)
Lit(s) == << s >>

Syntax == "Invalid syntax"

Errors == { None, Syntax }

ScopeTokens ==
    { NoneSeq, << >>,
      << "G", "L", "O", "B", "A", "L" >>, << "g", "l", "o", "b", "a", "l" >>,
      << "S", "u", "i", "t", "e" >>, << "S", "U", "I", "T", "E" >>,
      << "T", "E", "S", "T" >>, << "t", "e", "s", "t" >>,
      << "T", "A", "S", "K" >>, << "T", "a", "s", "k" >>,
      << "L", "O", "C", "A", "L" >>, << "l", "o", "c", "a", "l" >>,
      << "T", "E", "S", "T", "S" >>, << "a", "l", "l" >>,
      << LongS, "u", "i", "t", "e" >>,
      << "${s}" >> }

\* values ${s} may have before the run
Presets ==
    { Unset, Entry(<< "t", "a", "s", "k" >>, 0), Entry(<< "S", "U", "I", "T", "E" >>, 0),
      Entry(<< "a", "l", "l" >>, 0) }

VarValues ==
    { << Lit("a") >>, << << "${s}" >> >>, << Lit("a"), Lit("b") >>, << << "${s}" >>, Lit("b") >> }

NoBody == << >>
Passes(id, parent) == Keyword(id, parent, "pass", "", NoBody)
Fails(id, parent, msg) == Keyword(id, parent, "fail", msg, NoBody)
Reads(id, parent, name) == Keyword(id, parent, "read", name, NoBody)
Calls(id, parent, body) == Keyword(id, parent, "call", "", body)

\* a test with a single step
Jumps(id, parent) ==
    UNION { { Return(id, parent, e), Continue(id, parent, e), Break(id, parent, e) } :
            e \in Errors \cup { "" } }

VarNodes(id, parent) ==
    { Var(id, parent, "${x}", v, sc, NoneSeq, None) : v \in VarValues, sc \in ScopeTokens }
    \cup
    { Var(id, parent, "${x}", v, sc, << "-" >>, None) :
        v \in { w \in VarValues : Len(w) > 1 }, sc \in { NoneSeq, << "T", "E", "S", "T" >> } }
    \cup
    { Var(id, parent, "${x}", << Lit("a") >>, sc, NoneSeq, e) :
        sc \in ScopeTokens, e \in { Syntax, "" } }

SingleStepSuites ==
    { << << step >> >> :
        step \in VarNodes(1, 0) \cup Jumps(1, 0) \cup { Error(1, 0, Syntax), Error(1, 0, "") } }

\* loops: LOOP { first; IF cond { inner } ; last } ; after
First(id, parent) == { Passes(id, parent), Continue(id, parent, None), Break(id, parent, None) }
Inner(id, parent) ==
    { Passes(id, parent), Continue(id, parent, None), Break(id, parent, None),
      Return(id, parent, None), Fails(id, parent, "Boom"), Error(id, parent, Syntax),
      Break(id, parent, Syntax) }

LoopBody(parent, a, c, b) ==
    << a, If(3, parent, << IfBranch("IF", c, << b >>), IfBranch("ELSE", None, << Passes(7, 3) >>) >>,
          None),
       Passes(5, parent) >>

LoopBodies(parent) ==
    { LoopBody(parent, a, "True", b) : a \in First(2, parent), b \in Inner(4, 3) }
    \cup { LoopBody(parent, a, c, Break(4, 3, None)) :
             a \in First(2, parent), c \in { "False", "Error" } }

\* the bodies every kind of loop is run with
PlainBodies(parent) ==
    { LoopBody(parent, Passes(2, parent), "True", b) :
        b \in { Passes(4, 3), Continue(4, 3, None), Break(4, 3, None), Fails(4, 3, "Boom") } }

Items(n) == [k \in 1..n |-> Lit("v")]
List(n) == [k \in 1..n |-> "v"]
Num(n) == Lit(IntStr(n))

ForNodes(id, parent, body) ==
    { For(id, parent, << "${i}" >>, "IN", Items(n), None, None, NoneSeq, body, None) :
        n \in 0..MaxValues }
    \cup
    { For(id, parent, << "${i}" >>, "IN RANGE", v, None, None, NoneSeq, body, None) :
        v \in { << Num(n) >> : n \in 0..MaxValues }
              \cup { << Num(1), Num(n) >> : n \in 0..MaxValues + 1 }
              \cup { << Num(0), Num(n), Num(2) >> : n \in 0..MaxValues + 1 } }
    \cup
    { For(id, parent, << "${i}", "${j}" >>, "IN ENUMERATE", Items(n), st, None, NoneSeq, body, None) :
        n \in 0..MaxValues, st \in { None, "1" } }
    \cup
    { For(id, parent, << "${i}", "${j}" >>, "IN ZIP", << List(n), List(m) >>, None, mode, fill,
          body, None) :
        n \in 0..MaxValues, m \in 0..MaxValues, mode \in { None, "SHORTEST", "LONGEST" },
        fill \in { Lit("f") } }
    \cup
    { For(id, parent, << "${i}" >>, "IN", Items(1), None, None, NoneSeq, body, Syntax),
      For(id, parent, << >>, "IN ZIP", << >>, None, None, NoneSeq, body, None) }

\* a WHILE without a condition and without a limit never ends by itself
WhileNodes(id, parent, body) ==
    { While(id, parent, c, l, o[1], o[2], body, None) :
        c \in { IntStr(n) : n \in 0..MaxCond },
        l \in { None } \cup { IntStr(n) : n \in 0..MaxLimit },
        o \in { << None, None >>, << "fail", "Too many rounds" >>, << "pass", None >> } }
    \cup
    { While(id, parent, None, l, o[1], o[2], body, None) :
        l \in { IntStr(n) : n \in 0..MaxLimit },
        o \in { << None, None >>, << "fail", "Too many rounds" >>, << "pass", None >> } }
    \cup { While(id, parent, "1", None, None, None, body, Syntax) }

SomeLoops(id, parent, body) ==
    { For(id, parent, << "${i}" >>, "IN", Items(2), None, None, NoneSeq, body, None),
      While(id, parent, "2", None, None, None, body, None),
      While(id, parent, None, "2", None, None, body, None) }

LoopSuites ==
    { << << loop, Passes(6, 0) >> >> :
        loop \in UNION { ForNodes(1, 0, body) \cup WhileNodes(1, 0, body) : body \in PlainBodies(1) }
              \cup UNION { SomeLoops(1, 0, body) : body \in LoopBodies(1) } }

\* a loop in a loop: FOR 2 rounds { LOOP { inner } ; last } ; after
NestedSuites ==
    { << << For(1, 0, << "${i}" >>, "IN", Items(2), None, None, NoneSeq,
                << inner, Passes(5, 1) >>, None),
            Passes(6, 0) >> >> :
        inner \in UNION { { For(2, 1, << "${j}" >>, "IN", Items(2), None, None, NoneSeq, << b >>, None),
                            While(2, 1, "2", None, None, None, << b >>, None),
                            While(2, 1, None, "2", None, None, << b >>, None) } :
                          b \in Inner(4, 2) } }

\* TRY { a } EXCEPT pats { b } ELSE { e } FINALLY { c }, alone or in a FOR
TrySteps(id, parent) ==
    { Passes(id, parent), Fails(id, parent, "E1"), Fails(id, parent, "E2"),
      Break(id, parent, None), Continue(id, parent, None), Return(id, parent, None),
      Error(id, parent, Syntax) }
ExceptSteps(id, parent) ==
    { Passes(id, parent), Fails(id, parent, "EX"), Break(id, parent, None),
      Return(id, parent, None) }
FinallySteps(id, parent) == { Passes(id, parent), Fails(id, parent, "F") }

ExceptBranches(parent) ==
    { << >> } \cup
    { << TryBranch("EXCEPT", p[1], p[2], << b >>) >> :
        p \in { << << >>, None >>, << << "E1" >>, None >>, << << "E0", "E2" >>, "literal" >>,
                << << "*" >>, "glob" >>, << << "*" >>, None >> },
        b \in ExceptSteps(12, parent) }
ElseBranches(parent) ==
    { << >>, << TryBranch("ELSE", << >>, None, << Passes(13, parent) >>) >>,
      << TryBranch("ELSE", << >>, None, << Fails(13, parent, "EL") >>) >> }
FinallyBranches(parent) ==
    { << >> } \cup { << TryBranch("FINALLY", << >>, None, << c >>) >> : c \in FinallySteps(14, parent) }

TryNodes(id, parent) ==
    { Try(id, parent, << TryBranch("TRY", << >>, None, << a >>) >> \o x \o e \o f, None) :
        a \in TrySteps(11, id),
        x \in IF parent = 0 THEN ExceptBranches(id)
              ELSE { y \in ExceptBranches(id) : y = << >> \/ y[1].patterns = << >> },
        e \in IF parent = 0 THEN ElseBranches(id) ELSE { << >> },
        f \in FinallyBranches(id) }
    \cup { Try(id, parent, << TryBranch("TRY", << >>, None, << Passes(11, id) >>),
                             TryBranch("FINALLY", << >>, None, << Passes(14, id) >>) >>, Syntax) }

TrySuites ==
    { << << t, Passes(6, 0) >> >> : t \in TryNodes(10, 0) }
    \cup
    { << << For(1, 0, << "${i}" >>, "IN", Items(2), None, None, NoneSeq, << t, Passes(5, 1) >>, None),
            Passes(6, 0) >> >> : t \in TryNodes(10, 1) }

\* two tests that set and read ${x}, in the test and in user keywords
TestScopes ==
    { NoneSeq, << "T", "E", "S", "T" >>, << "t", "a", "s", "k" >>, << "S", "U", "I", "T", "E" >>,
      << "G", "L", "O", "B", "A", "L" >>, << "L", "O", "C", "A", "L" >> }

ScopeSuites ==
    { << << Var(1, 0, "${x}", << Lit("a") >>, sa, NoneSeq, None),
            Reads(2, 0, "${x}"),
            Calls(3, 0, << Reads(4, 3, "${x}"),
                           Var(5, 3, "${x}", << Lit("b") >>, sb, NoneSeq, None),
                           Reads(6, 3, "${x}"),
                           Return(7, 3, None),
                           Reads(8, 3, "${x}") >>),
            Calls(9, 0, << Reads(10, 9, "${x}") >>),
            Reads(11, 0, "${x}") >>,
         << Reads(12, 0, "${x}"),
            Calls(13, 0, << Reads(14, 13, "${x}") >>),
            Var(15, 0, "${x}", << Lit("c") >>, sc, NoneSeq, None),
            Reads(16, 0, "${x}") >> >> :
        sa \in TestScopes, sb \in TestScopes, sc \in { NoneSeq, << "T", "E", "S", "T" >> } }

Suites == LoopSuites \cup NestedSuites \cup TrySuites \cup ScopeSuites

Configs ==
    { [suite |-> s, preset |-> p] : s \in SingleStepSuites, p \in Presets }
    \cup { [suite |-> s, preset |-> Unset] : s \in Suites }

Init ==
    /\ dry_run \in BOOLEAN
    /\ top_run \in BOOLEAN
    /\ ti = 1
    /\ stack = << >>
    /\ ret = NoOutcome
    /\ \E c \in Configs :
         /\ suite = c.suite
         /\ variables = [local |-> << EmptyStore >>, test |-> EmptyStore, suite |-> EmptyStore,
                         global |-> [EmptyStore EXCEPT !["${s}"] = c.preset]]
    /\ writes = << >>
    /\ reads = << >>
    /\ events = << >>
    /\ results = << >>
    /\ DictUnused
    /\ HeapUnused
    /\ CallUnused

Next ==
    \/ StartTest
    \/ EndTest
    \/ BodyEnd
    \/ BodyResume
    \/ RunVar
    \/ RunReturn
    \/ RunContinue
    \/ RunBreak
    \/ RunError
    \/ RunKeyword
    \/ RunLibraryKeyword
    \/ RunFor
    \/ RunWhile
    \/ RunIf
    \/ RunTry
    \/ KeywordStep
    \/ ForStep
    \/ WhileStep
    \/ IfStep
    \/ TryStep

Spec == Init /\ [][Next]_vars

(***************************************************************************)
(* Properties                                                              *)
(***************************************************************************)
Last(seq) == seq[Len(seq)]

JumpTypes == { "RETURN", "CONTINUE", "BREAK" }

\* the two events of a node that is run in one step
Reported(node, run, out) == << Enter(node, run), Exit(node, run, out) >>

\* the body runner goes on with the next item / stops with the outcome
GoesOn == stack' = [stack EXCEPT ![Len(stack)].i = @ + 1] /\ ret' = NoOutcome
StopsWith(out) == stack' = Pop /\ ret' = out

\* C1: a Var, Return, Continue or Break node with a pre-recorded error that
\* is run with run=true fails at that node with a DataError carrying the
\* recorded message, in dry-run mode or not; no store is written and no
\* jump signal is raised.
C1_StructuralErrorFails ==
    [][ \A type \in JumpTypes \cup { "VAR" } :
          (AtItem(type) /\ Top.run /\ ~Falsy(Cur.error)) =>
             /\ StopsWith(DataError(Cur.error))
             /\ events' = events \o Reported(Cur, TRUE, DataError(Cur.error))
             /\ variables' = variables
             /\ writes' = writes ]_vars

C1_Witness ==
    /\ ~dry_run
    /\ events # << >>
    /\ Last(events).ev = "exit"
    /\ Last(events).tag = "BREAK"
    /\ Last(events).run
    /\ Last(events).out = DataError(Syntax)
    /\ ret = DataError(Syntax)

\* Comparison ignoring case, and the scope a token stands for
SameIgnoringCase(a, b) == StrLower(a) = StrLower(b)

ScopeWords ==
    << << << "G", "L", "O", "B", "A", "L" >>, "global" >>,
       << << "S", "U", "I", "T", "E" >>, "suite" >>,
       << << "T", "E", "S", "T" >>, "test" >>,
       << << "L", "O", "C", "A", "L" >>, "local" >>,
       << << "T", "A", "S", "K" >>, "test" >> >>

\* "local", "test", "suite", "global", or "invalid"
ScopeFor(token, vs) ==
    IF FalsySeq(token) THEN "local"
    ELSE LET r == ReplaceString(vs, token)
             hits == { w \in 1..Len(ScopeWords) : r.ok /\ SameIgnoringCase(r.str, ScopeWords[w][1]) }
         IN  IF hits = {} THEN "invalid" ELSE ScopeWords[CHOOSE w \in hits : TRUE][2]

Store(vs, scope) == IF scope = "local" THEN Last(vs.local) ELSE vs[scope]

VarIsSet == AtItem("VAR") /\ Top.run /\ Falsy(Cur.error) /\ ~dry_run

\* the error for a scope token that stands for no scope
InvalidScopeError(token, vs) ==
    LET r == ReplaceString(vs, token)
    IN  DataError("Invalid VAR scope: " \o
                  (IF ~r.ok THEN r.msg
                   ELSE "Value '" \o Join(r.str) \o "' is not accepted. Valid values are "
                        \o "'GLOBAL', 'SUITE', 'TEST', 'TASK' and 'LOCAL'."))

\* C2: an absent or empty scope is local; any other token is
\* variable-substituted and then, ignoring case, GLOBAL, SUITE, TEST and
\* LOCAL give the scope of that name and TASK gives test; every other value,
\* and a substitution that fails, gives an invalid-scope error naming the
\* value and never a store.
C2_ScopeResolution ==
    [][ VarIsSet =>
          IF ScopeFor(Cur.scope, variables) = "invalid"
          THEN /\ StopsWith(InvalidScopeError(Cur.scope, variables))
               /\ writes' = writes
               /\ variables' = variables
          ELSE Resolve(variables, Cur).ok =>
                 /\ Len(writes') = Len(writes) + 1
                 /\ Last(writes').attr = "set_" \o ScopeFor(Cur.scope, variables) ]_vars

\* C3 as amended: a Var node run with run=true, without error, not in
\* dry-run mode, whose scope resolves to s and whose values resolve, makes
\* exactly one setter call, set_s(name, resolved value); the stores of the
\* three other scopes are unchanged.
C3_OneWriteInScope ==
    [][ \A s \in ScopeNames :
          (VarIsSet /\ ScopeFor(Cur.scope, variables) = s /\ Resolve(variables, Cur).ok) =>
             /\ Len(writes') = Len(writes) + 1
             /\ Last(writes').attr = "set_" \o s
             /\ Last(writes').name = Cur.name
             /\ Last(writes').value = Resolve(variables, Cur).str
             /\ Store(variables', s)[Cur.name].val = Resolve(variables, Cur).str
             /\ \A n \in VarNames \ { Cur.name } : Store(variables', s)[n] = Store(variables, s)[n]
             /\ \A t \in ScopeNames \ { s } : Store(variables', t) = Store(variables, t)
             /\ Len(variables'.local) = Len(variables.local)
             /\ GoesOn ]_vars

\* C3 as stated: the write happens whenever the scope resolves
C3_Original ==
    [][ \A s \in ScopeNames :
          (VarIsSet /\ ScopeFor(Cur.scope, variables) = s) =>
             /\ Len(writes') = Len(writes) + 1
             /\ Last(writes').attr = "set_" \o s
             /\ Last(writes').name = Cur.name
             /\ \A t \in ScopeNames \ { s } : Store(variables', t) = Store(variables, t) ]_vars

C3_Witness ==
    /\ writes # << >>
    /\ Last(writes).attr = "set_test"
    /\ Last(writes).value = << "a", " ", "b" >>
    /\ variables.test["${x}"].val = << "a", " ", "b" >>
    /\ variables.suite = EmptyStore

\* C4: in dry-run mode a Var node writes no store and a Break, Continue or
\* Return node raises no jump signal; without a pre-recorded error the node
\* completes normally, and its status scope is entered and left.
C4_DryRunNoEffect ==
    [][ \A type \in JumpTypes \cup { "VAR" } :
          (AtItem(type) /\ dry_run) =>
             /\ variables' = variables
             /\ writes' = writes
             /\ ~IsJump(ret')
             /\ (Falsy(Cur.error) \/ ~Top.run) =>
                   /\ GoesOn
                   /\ events' = events \o Reported(Cur, Top.run, Pass) ]_vars

C4_Witness ==
    /\ dry_run
    /\ top_run
    /\ ret = NoOutcome
    /\ Len(events) = 2
    /\ events[1].ev = "enter" /\ events[1].tag = "RETURN"
    /\ events[2].ev = "exit" /\ events[2].tag = "RETURN" /\ events[2].out = Pass
    /\ stack # << >> /\ Top.kind = "body" /\ Top.i = 2

(***************************************************************************)
(* The status scopes open after the events from the i-th on, given those   *)
(* open before, innermost last; Bad when a scope is entered outside its    *)
(* parent's scope or a scope other than the innermost open one is left.    *)
(***************************************************************************)
Bad == << [ev |-> "bad"] >>

RECURSIVE Scan(_, _, _)
Scan(evs, i, open) ==
    IF i > Len(evs) THEN open
    ELSE LET e == evs[i]
         IN  CASE e.ev = "enter" ->
                    IF e.parent = (IF open = << >> THEN 0 ELSE Last(open).id)
                    THEN Scan(evs, i + 1, Append(open, e))
                    ELSE Bad
               [] e.ev = "exit" ->
                    IF open # << >> /\ Last(open).id = e.id
                    THEN Scan(evs, i + 1, SubSeq(open, 1, Len(open) - 1))
                    ELSE Bad
               [] OTHER -> Scan(evs, i + 1, open)

OpenScopes == Scan(events, 1, << >>)

\* the nodes whose run is in progress, outermost first
Running == SelectSeq(stack, LAMBDA f : f.kind = "node")

\* C5: every status scope entered by a node's run is left exactly once,
\* however the run ends; a scope is entered only inside the scope of the
\* node's parent and left before it: at any moment the open scopes are
\* exactly those of the nodes whose run is in progress, in nesting order.
C5_ScopesNested ==
    /\ OpenScopes # Bad
    /\ Len(OpenScopes) = Len(Running)
    /\ \A d \in 1..Len(Running) : OpenScopes[d].id = Running[d].node.id

C5_Witness ==
    /\ ret = ContinueLoop
    /\ Len(Running) = 2
    /\ Running[1].node.type = "FOR"
    /\ Running[2].node.type = "IF"
    /\ Last(events).ev = "exit"
    /\ Last(events).tag = "CONTINUE"
    /\ Last(events).out = ContinueLoop

(***************************************************************************)
(* Loops and the signals that reach them                                   *)
(***************************************************************************)
RECURSIVE Nodes(_)
Nodes(items) ==
    UNION { { items[k] } \cup
            ( CASE items[k].type \in { "FOR", "WHILE", "KEYWORD" } -> Nodes(items[k].body)
                [] items[k].type \in { "IF", "TRY" } ->
                      UNION { Nodes(items[k].body[b].body) : b \in 1..Len(items[k].body) }
                [] OTHER -> {} ) : k \in 1..Len(items) }

NodeById(id) == CHOOSE n \in UNION { Nodes(suite[t]) : t \in 1..Len(suite) } : n.id = id

\* a node that is run in one step leaves its scope right after entering it
IsStep(p) ==
    /\ p > 1
    /\ events[p].ev = "exit"
    /\ events[p - 1].ev = "enter"
    /\ events[p - 1].id = events[p].id
    /\ events[p].tag \notin { "FOR", "WHILE", "IF", "TRY" }

Steps == { p \in 1..Len(events) : IsStep(p) }
LastStep == CHOOSE p \in Steps : \A q \in Steps : q <= p

IsLoop(e) == e.tag \in { "FOR", "WHILE" }

\* the number of the round the loop with this id is in at event p
RoundAt(id, p) ==
    LET starts == { q \in 1..p : events[q].ev = "body" /\ events[q].id = id }
    IN  events[CHOOSE q \in starts : \A r \in starts : r <= q].n

\* does the loop have a round after round n
HasNextRound(node, n) ==
    IF node.type = "FOR" THEN n < Len(ForRounds(node))
    ELSE ShouldRun(node, n) /\ ~(node.limit # None /\ n >= Limit(node))

\* what the loop does once the signal of the step at p has reached it
LoopReaction(e, loop, p, next) ==
    CASE e.out.k \in { "return", "fail" } ->
            next.ev = "exit" /\ next.id = loop.id /\ next.out = e.out
      [] e.out.k = "break" ->
            next.ev = "exit" /\ next.id = loop.id /\ next.out = Pass
      [] e.out.k = "continue" ->
            IF HasNextRound(NodeById(loop.id), RoundAt(loop.id, p))
            THEN next.ev = "body" /\ next.id = loop.id /\ next.n = RoundAt(loop.id, p) + 1
                 /\ next.run
            ELSE next.ev = "exit" /\ next.id = loop.id /\ next.out.k \in { "pass", "fail" }

\* the signal a Break, Continue or Return node must raise
Signal(e) ==
    CASE e.tag = "BREAK" -> BreakLoop
      [] e.tag = "CONTINUE" -> ContinueLoop
      [] e.tag = "RETURN" -> ReturnFromKeyword

\* C6: a Continue raised in the body of a loop, directly or inside nested
\* IFs, ends the current round and the innermost loop starts its next
\* round; a Break ends the innermost loop, which passes; neither leaves the
\* loop; a Return or an error leaves the loop as it is and no further round
\* is run.
C6_LoopSignals ==
    /\ \A q \in 1..Len(events) :
          (events[q].ev = "exit" /\ IsLoop(events[q])) =>
             events[q].out.k \notin { "break", "continue" }
    /\ Steps # {} =>
          LET p == LastStep
              e == events[p]
              chain == Scan(SubSeq(events, 1, p), 1, << >>)
              loops == { d \in 1..Len(chain) : IsLoop(chain[d]) }
              l == CHOOSE d \in loops : \A c \in loops : c <= d
              ifs == Len(chain) - l
          IN  ( /\ e.run
                /\ ~dry_run
                /\ e.tag \in JumpTypes \/ e.out.k = "fail"
                /\ loops # {}
                /\ \A d \in l + 1..Len(chain) : chain[d].tag = "IF" ) =>
                  /\ e.tag \in JumpTypes => e.out = Signal(e) \/ e.out.k = "fail"
                  /\ \A d \in 1..ifs :
                        p + d <= Len(events) =>
                           /\ events[p + d].ev = "exit"
                           /\ events[p + d].id = chain[Len(chain) - d + 1].id
                           /\ events[p + d].out = e.out
                  /\ p + ifs + 1 <= Len(events) =>
                        LoopReaction(e, chain[l], p, events[p + ifs + 1])

C6_Witness ==
    /\ Len(events) > 3
    /\ Last(events).ev = "body"
    /\ Last(events).tag = "ITERATION"
    /\ Last(events).n = 2
    /\ events[Len(events) - 1].ev = "exit"
    /\ events[Len(events) - 1].tag = "IF"
    /\ events[Len(events) - 1].out = ContinueLoop
    /\ events[Len(events) - 2].ev = "exit"
    /\ events[Len(events) - 2].tag = "CONTINUE"

(***************************************************************************)
(* TRY and FINALLY                                                         *)
(***************************************************************************)
\* the event where the activation that is left at event x was entered
EnterOf(x) ==
    LET before == { q \in 1..x : events[q].ev = "enter" /\ events[q].id = events[x].id }
    IN  CHOOSE q \in before : \A r \in before : r <= q

FinallyStarts(x) ==
    { q \in EnterOf(x)..x :
        events[q].ev = "body" /\ events[q].id = events[x].id /\ events[q].tag = "FINALLY"
        /\ events[q].run }

TryExits ==
    { x \in 1..Len(events) :
        /\ events[x].ev = "exit"
        /\ events[x].tag = "TRY"
        /\ Falsy(NodeById(events[x].id).error)
        /\ HasBranch(NodeById(events[x].id), "FINALLY") }

\* C7: when a TRY node with a FINALLY branch is run, the FINALLY body is
\* run exactly once, whatever TRY, EXCEPT and ELSE ended with; the node
\* ends with what was pending before FINALLY (pass, an error or a jump
\* signal) when FINALLY passes, and with the failure of FINALLY otherwise.
C7_FinallyAlwaysRuns ==
    top_run =>
      \A x \in TryExits :
        /\ Cardinality(FinallyStarts(x)) = 1
        /\ LET q == CHOOSE f \in FinallyStarts(x) : TRUE
               pending == events[q - 1].out
               final == events[x - 1].out
           IN  /\ events[q - 1].ev = "exit"
               /\ events[x - 1].ev = "exit"
               /\ q < x - 1
               /\ events[x].out = IF final = Pass THEN pending ELSE final

C7_Witness ==
    /\ top_run
    /\ ~dry_run
    /\ Len(events) > 6
    /\ Last(events).ev = "exit"
    /\ Last(events).tag = "TRY"
    /\ Last(events).out = Failure("ExecutionFailed", "F")
    /\ \E q \in 2..Len(events) :
          /\ events[q].ev = "body" /\ events[q].tag = "FINALLY"
          /\ events[q - 1].out = Failure("ExecutionFailed", "E2")

\* a jump signal is pending while FINALLY runs, and leaves the node after it
C7_WitnessJump ==
    /\ Len(events) > 4
    /\ Last(events).ev = "exit"
    /\ Last(events).tag = "TRY"
    /\ Last(events).out = BreakLoop
    /\ events[Len(events) - 1].out = Pass
    /\ events[Len(events) - 3].ev = "body" /\ events[Len(events) - 3].tag = "FINALLY"

(***************************************************************************)
(* Rounds of FOR and WHILE                                                 *)
(***************************************************************************)
\* the rounds of the activation left at event x that were really run
RoundsRun(x) ==
    { q \in EnterOf(x)..x :
        events[q].ev = "body" /\ events[q].id = events[x].id /\ events[q].tag = "ITERATION"
        /\ events[q].run }

\* a Break, a Return or an error inside the activation left at event x
Disturbed(x) ==
    \E q \in EnterOf(x)..x - 1 :
        events[q].ev = "exit" /\ events[q].out.k \in { "break", "return", "fail" }

Lengths(node) == { Len(node.values[c]) : c \in 1..Len(node.values) }

\* the number of expanded values of a FOR node
Expanded(node) ==
    CASE node.flavor \in { "IN", "IN ENUMERATE" } -> Len(node.values)
      [] node.flavor = "IN RANGE" ->
            LET a == RangeArgs(node.values)
            IN  Cardinality({ i \in 0..9 : a[1] <= i /\ i < a[2] /\ (i - a[1]) % a[3] = 0 })
      [] node.flavor = "IN ZIP" ->
            IF node.values = << >> THEN 0
            ELSE IF node.mode = "LONGEST"
                 THEN CHOOSE n \in Lengths(node) : \A m \in Lengths(node) : m <= n
                 ELSE CHOOSE n \in Lengths(node) : \A m \in Lengths(node) : n <= m

ExitsOf(type) ==
    { x \in 1..Len(events) :
        /\ events[x].ev = "exit"
        /\ events[x].tag = type
        /\ Falsy(NodeById(events[x].id).error) }

\* C8: a FOR node of any flavor in whose body no Break, Return or error
\* occurs runs its body once per expanded value (IN ZIP: as often as the
\* longest list is long in LONGEST mode, as the shortest otherwise) and
\* passes; without values the body is not run.
C8_ForRounds ==
    top_run =>
      \A x \in ExitsOf("FOR") :
        ~Disturbed(x) =>
           /\ Cardinality(RoundsRun(x)) = Expanded(NodeById(events[x].id))
           /\ \A q \in RoundsRun(x) : events[q].n \in 1..Expanded(NodeById(events[x].id))
           /\ events[x].out = Pass

C8_Witness ==
    /\ top_run
    /\ events # << >>
    /\ Last(events).ev = "exit"
    /\ Last(events).tag = "FOR"
    /\ Last(events).out = Pass
    /\ ~Disturbed(Len(events))
    /\ LET node == NodeById(Last(events).id)
       IN  /\ node.flavor = "IN ZIP"
           /\ node.mode = "LONGEST"
           /\ Lengths(node) = { 1, 2 }
           /\ Cardinality(RoundsRun(Len(events))) = 2

\* no values, no round
C8_WitnessEmpty ==
    /\ top_run
    /\ Len(events) = 2
    /\ Last(events).ev = "exit"
    /\ Last(events).tag = "FOR"
    /\ Last(events).out = Pass
    /\ NodeById(Last(events).id).flavor = "IN RANGE"

\* the rounds of a WHILE ended because of the limit: the condition holds
\* after as many rounds as the limit allows, none of them left the loop
HitLimit(x) ==
    LET node == NodeById(events[x].id)
    IN  /\ node.limit # None
        /\ ShouldRun(node, Limit(node))
        /\ \A q \in EnterOf(x)..x - 1 :
              (events[q].ev = "exit" /\ events[q].parent = node.id) =>
                 events[q].out.k \in { "pass", "continue" }

\* C9: a WHILE node with limit N never runs its body more than N times;
\* when the condition still holds after N rounds the node fails with the
\* configured message, or the default one that names the limit, unless the
\* policy is pass: then it stops and passes.
C9_WhileLimit ==
    top_run =>
      /\ \A q \in 1..Len(events) :
            ( /\ events[q].ev = "body"
              /\ events[q].tag = "ITERATION"
              /\ events[q].run
              /\ NodeById(events[q].id).type = "WHILE"
              /\ NodeById(events[q].id).limit # None ) =>
                events[q].n <= ParseInt(NodeById(events[q].id).limit)
      /\ \A x \in ExitsOf("WHILE") :
            HitLimit(x) =>
               LET node == NodeById(events[x].id)
               IN  /\ Cardinality(RoundsRun(x)) = ParseInt(node.limit)
                   /\ IF node.on_limit = "pass" THEN events[x].out = Pass
                      ELSE /\ events[x].out.k = "fail"
                           /\ events[x].out.msg =
                                 IF node.on_limit_message # None THEN node.on_limit_message
                                 ELSE LimitMessage(node)

C9_Witness ==
    /\ top_run
    /\ events # << >>
    /\ Last(events).ev = "exit"
    /\ Last(events).tag = "WHILE"
    /\ Last(events).out.k = "fail"
    /\ Last(events).out.cls = "LimitExceeded"
    /\ NodeById(Last(events).id).on_limit_message = None
    /\ NodeById(Last(events).id).limit = "2"
    /\ Cardinality(RoundsRun(Len(events))) = 2

(***************************************************************************)
(* Test variables                                                          *)
(***************************************************************************)
\* the writes made by Var nodes whose scope is TEST or TASK
TestWrites ==
    { w \in 1..Len(writes) :
        /\ NodeById(writes[w].node).type = "VAR"
        /\ \E word \in { << "T", "E", "S", "T" >>, << "T", "A", "S", "K" >> } :
              SameIgnoringCase(NodeById(writes[w].node).scope, word) }

\* the variable is written again after write w and before read r
Overwritten(w, r) ==
    \E v \in w + 1..reads[r].at : writes[v].name = writes[w].name

C16_ErrorAlwaysFails ==
    [][ (AtItem("ERROR") /\ Top.run) =>
          /\ StopsWith(DataError(Cur.error))
          /\ events' = events \o Reported(Cur, TRUE, DataError(Cur.error))
          /\ variables' = variables
          /\ writes' = writes ]_vars

C16_Witness ==
    /\ dry_run
    /\ events # << >>
    /\ Last(events).ev = "exit"
    /\ Last(events).tag = "ERROR"
    /\ Last(events).run
    /\ Last(events).out = DataError(Syntax)
    /\ ret = DataError(Syntax)

\* the values of the Var node at hand cannot be resolved, its scope can
ResolvingFails ==
    /\ VarIsSet
    /\ ScopeFor(Cur.scope, variables) \in ScopeNames
    /\ ~Resolve(variables, Cur).ok

\* C17: when the values of a Var node cannot be resolved the node fails with
\* a VariableError "Setting variable '<name>' failed: <original message>",
\* and no store of any scope is written.
C17_ResolvingFailureWrapped ==
    [][ ResolvingFails =>
          /\ StopsWith(VariableError("Setting variable '" \o Cur.name \o "' failed: "
                                     \o Resolve(variables, Cur).msg))
          /\ \A s \in ScopeNames : Store(variables', s) = Store(variables, s)
          /\ variables' = variables
          /\ writes' = writes ]_vars

C17_Witness ==
    /\ ret.k = "fail"
    /\ ret.cls = "VariableError"
    /\ ret.msg = "Setting variable '${x}' failed: Variable '${s}' not found."
    /\ writes = << >>
    /\ events # << >>
    /\ Last(events).tag = "VAR"

(***************************************************************************)
(* Serialisation.  An object is a record of its attributes; the record     *)
(* to_dict gives has a field for some of them.  An attribute that is an    *)
(* int or None is an integer, None being NoneInt.  The to_dict and         *)
(* from_dict of the base classes in robot.model are not part of this       *)
(* source: model_to_dict emits the type of a body item and the attributes  *)
(* that differ from their defaults, model_from_dict sets the attributes    *)
(* the record names.                                                       *)
(***************************************************************************)
NoneInt == -1
FalsyInt(n) == n = NoneInt \/ n = 0

\* data[key] = value
Put(data, key, value) == (key :> value) @@ data
PutIf(cond, data, key, value) == IF cond THEN Put(data, key, value) ELSE data
\* data.pop(key)
Drop(data, key) == [k \in (DOMAIN data) \ { key } |-> data[k]]
Keep(data, keys) == [k \in (DOMAIN data) \cap keys |-> data[k]]
EmptyDict == Keep([type |-> ""], { })

\* the defaults of the constructors
KeywordDefaults ==
    [type |-> "KEYWORD", name |-> "", args |-> << >>, assign |-> << >>, lineno |-> NoneInt]
ForDefaults ==
    [type |-> "FOR", assign |-> << >>, flavor |-> "IN", values |-> << >>, start |-> None,
     mode |-> None, fill |-> None, lineno |-> NoneInt, error |-> None, body |-> << >>]
WhileDefaults ==
    [type |-> "WHILE", condition |-> None, limit |-> None, on_limit |-> None,
     on_limit_message |-> None, lineno |-> NoneInt, error |-> None, body |-> << >>]
IfBranchDefaults ==
    [type |-> "IF", condition |-> None, lineno |-> NoneInt, body |-> << >>]
IfDefaults ==
    [type |-> "IF/ELSE ROOT", lineno |-> NoneInt, error |-> None, body |-> << >>]
TryBranchDefaults ==
    [type |-> "TRY", patterns |-> << >>, pattern_type |-> None, assign |-> NoneSeq,
     lineno |-> NoneInt, body |-> << >>]
TryDefaults ==
    [type |-> "TRY/EXCEPT ROOT", lineno |-> NoneInt, error |-> None, body |-> << >>]
VarDefaults ==
    [type |-> "VAR", name |-> "", value |-> << >>, scope |-> None, separator |-> None,
     lineno |-> NoneInt, error |-> None]
ReturnDefaults ==
    [type |-> "RETURN", values |-> << >>, lineno |-> NoneInt, error |-> None]
ContinueDefaults == [type |-> "CONTINUE", lineno |-> NoneInt, error |-> None]
BreakDefaults == [type |-> "BREAK", lineno |-> NoneInt, error |-> None]
ErrorDefaults == [type |-> "ERROR", values |-> << >>, lineno |-> NoneInt, error |-> ""]

BranchTypes == { "IF", "ELSE IF", "ELSE", "TRY", "EXCEPT", "FINALLY" }

\* the attributes robot.model serialises: all but lineno and error, which
\* the classes of this module add; a keyword call has no type in its record
Inherited(defaults) ==
    IF "type" \notin DOMAIN defaults THEN { }
    ELSE (DOMAIN defaults) \ ({ "lineno", "error", "body" }
                              \cup (IF defaults.type = "KEYWORD" THEN { "type" } ELSE { }))

RECURSIVE Body_to_dicts(_)
RECURSIVE Body_from_dicts(_, _)

model_to_dict(self, defaults) ==
    LET keys == { k \in Inherited(defaults) : k = "type" \/ self[k] # defaults[k] }
        data == [k \in keys |-> self[k]]
    IN  IF "body" \in DOMAIN defaults /\ self.body # << >>
        THEN Put(data, "body", Body_to_dicts(self.body))
        ELSE data

\* the object built, and the record passed as it is afterwards: the records
\* of the body are handed to the from_dict of their classes
model_from_dict(defaults, data) ==
    LET body == Body_from_dicts(defaults.type, IF "body" \in DOMAIN data THEN data.body ELSE << >>)
    IN  [self |-> [k \in DOMAIN defaults |->
                     IF k \notin DOMAIN data THEN defaults[k]
                     ELSE IF k = "body" THEN body.selves
                     ELSE data[k]],
         data |-> IF "body" \in DOMAIN data THEN Put(data, "body", body.dicts) ELSE data]

\* as WithLineno, with the line number always in the record
WithLineno_Always(self, data) == Put(data, "lineno", self.lineno)

\* if self.lineno: data['lineno'] = self.lineno
WithLineno(self, data) == PutIf(~FalsyInt(self.lineno), data, "lineno", self.lineno)
\* if self.error: data['error'] = self.error
WithError(self, data) == PutIf(~Falsy(self.error), data, "error", self.error)

Keyword_to_dict(self) == WithLineno(self, model_to_dict(self, KeywordDefaults))
For_to_dict(self) == WithError(self, WithLineno(self, model_to_dict(self, ForDefaults)))
While_to_dict(self) == WithError(self, WithLineno(self, model_to_dict(self, WhileDefaults)))
IfBranch_to_dict(self) == WithLineno(self, model_to_dict(self, IfBranchDefaults))
If_to_dict(self) == WithError(self, WithLineno(self, model_to_dict(self, IfDefaults)))
TryBranch_to_dict(self) == WithLineno(self, model_to_dict(self, TryBranchDefaults))
Try_to_dict(self) == WithError(self, WithLineno(self, model_to_dict(self, TryDefaults)))
Var_to_dict(self) == WithError(self, WithLineno(self, model_to_dict(self, VarDefaults)))
Return_to_dict(self) == WithError(self, WithLineno(self, model_to_dict(self, ReturnDefaults)))
Continue_to_dict(self) == WithError(self, WithLineno(self, model_to_dict(self, ContinueDefaults)))
Break_to_dict(self) == WithError(self, WithLineno(self, model_to_dict(self, BreakDefaults)))
\* the error of an Error node is always in the record
Error_to_dict(self) ==
    Put(WithLineno(self, model_to_dict(self, ErrorDefaults)), "error", self.error)

BodyItem_to_dict(self) ==
    CASE self.type \in { "KEYWORD", "SETUP", "TEARDOWN" } -> Keyword_to_dict(self)
      [] self.type = "FOR" -> For_to_dict(self)
      [] self.type = "WHILE" -> While_to_dict(self)
      [] self.type = "IF/ELSE ROOT" -> If_to_dict(self)
      [] self.type \in { "IF", "ELSE IF", "ELSE" } /\ "condition" \in DOMAIN self ->
            IfBranch_to_dict(self)
      [] self.type = "TRY/EXCEPT ROOT" -> Try_to_dict(self)
      [] self.type \in { "TRY", "EXCEPT", "ELSE", "FINALLY" } /\ "patterns" \in DOMAIN self ->
            TryBranch_to_dict(self)
      [] self.type = "VAR" -> Var_to_dict(self)
      [] self.type = "RETURN" -> Return_to_dict(self)
      [] self.type = "CONTINUE" -> Continue_to_dict(self)
      [] self.type = "BREAK" -> Break_to_dict(self)
      [] self.type = "ERROR" -> Error_to_dict(self)

Body_to_dicts(body) == [i \in 1..Len(body) |-> BodyItem_to_dict(body[i])]

\* as For_from_dict, with the value of 'variables' thrown away
For_from_dict_DropsVariables(data) ==
    model_from_dict(ForDefaults,
                    IF "variables" \in DOMAIN data THEN Drop(data, "variables") ELSE data)

\* data['assign'] = data.pop('variables')
For_from_dict(data) ==
    model_from_dict(ForDefaults,
                    IF "variables" \in DOMAIN data
                    THEN Put(Drop(data, "variables"), "assign", data.variables)
                    ELSE data)

\* data['assign'] = data.pop('variable')
TryBranch_from_dict(data) ==
    model_from_dict(TryBranchDefaults,
                    IF "variable" \in DOMAIN data
                    THEN Put(Drop(data, "variable"), "assign", data.variable)
                    ELSE data)

\* the class is chosen by the type in the record and by the owner of the
\* body: an If has IfBranch items, a Try has TryBranch items
BodyItem_from_dict(owner, data) ==
    CASE owner = "IF/ELSE ROOT" -> model_from_dict(IfBranchDefaults, data)
      [] owner = "TRY/EXCEPT ROOT" -> TryBranch_from_dict(data)
      [] "type" \notin DOMAIN data -> model_from_dict(KeywordDefaults, data)
      [] data.type = "FOR" -> For_from_dict(data)
      [] data.type = "WHILE" -> model_from_dict(WhileDefaults, data)
      [] data.type = "IF/ELSE ROOT" -> model_from_dict(IfDefaults, data)
      [] data.type = "TRY/EXCEPT ROOT" -> model_from_dict(TryDefaults, data)
      [] data.type = "VAR" -> model_from_dict(VarDefaults, data)
      [] data.type = "RETURN" -> model_from_dict(ReturnDefaults, data)
      [] data.type = "CONTINUE" -> model_from_dict(ContinueDefaults, data)
      [] data.type = "BREAK" -> model_from_dict(BreakDefaults, data)
      [] data.type = "ERROR" -> model_from_dict(ErrorDefaults, data)

Body_from_dicts(owner, dicts) ==
    [selves |-> [i \in 1..Len(dicts) |-> BodyItem_from_dict(owner, dicts[i]).self],
     dicts |-> [i \in 1..Len(dicts) |-> BodyItem_from_dict(owner, dicts[i]).data]]

(***************************************************************************)
(* Variable and Import                                                     *)
(***************************************************************************)
VariableDefaults ==
    [name |-> "", value |-> << >>, separator |-> None, lineno |-> NoneInt, error |-> None]
ImportDefaults == [args |-> << >>, alias |-> None, lineno |-> NoneInt]

\* ModelObject.from_dict of a class without a body: cls().config(**data)
Config(defaults, data) ==
    [self |-> [k \in DOMAIN defaults |-> IF k \in DOMAIN data THEN data[k] ELSE defaults[k]],
     data |-> data]

Variable_to_dict(self) ==
    WithError(self, WithLineno(self, [name |-> self.name, value |-> self.value]))

Variable_from_dict(data) == Config(VariableDefaults, data)

\* cls(**data): type and name have no default
Import_from_dict(data) ==
    Config([type |-> data.type, name |-> data.name] @@ ImportDefaults, data)

Import_to_dict(self) ==
    WithLineno(self,
        PutIf(~Falsy(self.alias),
              PutIf(self.args # << >>, [type |-> self.type, name |-> self.name],
                    "args", self.args),
              "alias", self.alias))

(***************************************************************************)
(* UserKeyword.  The argument specification is the sequence of its         *)
(* arguments, each with a kind, a name and a default; an argument in a     *)
(* record is the sequence of the parts of its text.  A setup or teardown   *)
(* slot is << >> as long as no object was made for it.                     *)
(***************************************************************************)
NOT_SET == "<NOT_SET>"

ArgInfo(kind, name, default) == [kind |-> kind, name |-> name, default |-> default]

\* one argument as text: ${name}, ${name}=default, @{name}, @{}, &{name}
DecorateArg(info) ==
    LET deco == IF info.kind = "VAR_NAMED" THEN "&"
                ELSE IF info.kind \in { "VAR_POSITIONAL", "NAMED_ONLY_MARKER" } THEN "@"
                ELSE "$"
        arg == << deco, "{", info.name, "}" >>
    IN  IF info.default # NOT_SET THEN arg \o << "=", info.default >> ELSE arg

UserKeyword_decorate_args(self) == [i \in 1..Len(self.args) |-> DecorateArg(self.args[i])]

\* UserKeywordArgumentParser: the kind of an argument from its first
\* character and from whether a @{...} came before it
RECURSIVE ParseArgs(_, _)
ParseArgs(args, after_varargs) ==
    IF args = << >> THEN << >>
    ELSE LET arg == Head(args)
             kind == CASE arg[1] = "&" -> "VAR_NAMED"
                       [] arg[1] = "@" /\ arg[3] = "" -> "NAMED_ONLY_MARKER"
                       [] arg[1] = "@" -> "VAR_POSITIONAL"
                       [] arg[1] = "$" /\ after_varargs -> "NAMED_ONLY"
                       [] OTHER -> "POSITIONAL_OR_NAMED"
         IN  << ArgInfo(kind, arg[3], IF Len(arg) > 4 THEN arg[6] ELSE NOT_SET) >>
             \o ParseArgs(Tail(args), after_varargs \/ arg[1] = "@")

\* create_fixture(fixture_class, fixture, parent, fixture_type)
create_fixture(fixture, type) ==
    IF fixture = << >> THEN [KeywordDefaults EXCEPT !.name = None, !.type = type]
    ELSE [fixture[1] EXCEPT !.type = type]

UserKeywordDefaults ==
    [name |-> "", args |-> << >>, doc |-> "", tags |-> { }, timeout |-> None,
     lineno |-> NoneInt, error |-> None, body |-> << >>, _setup |-> << >>, _teardown |-> << >>]

\* bool(self._setup): a keyword call is true when it has a name
UserKeyword_has_setup_IsNotNone(self) == self._setup # << >>

UserKeyword_has_setup(self) == self._setup # << >> /\ self._setup[1].name # None
UserKeyword_has_teardown(self) == self._teardown # << >> /\ self._teardown[1].name # None

\* reading setup makes the object when there is none
UserKeyword_setup(self) ==
    IF self._setup = << >> THEN [self EXCEPT !._setup = << create_fixture(<< >>, "SETUP") >>]
    ELSE self
UserKeyword_teardown(self) ==
    IF self._teardown = << >>
    THEN [self EXCEPT !._teardown = << create_fixture(<< >>, "TEARDOWN") >>]
    ELSE self

UserKeyword_to_dict(self) ==
    LET d1 == PutIf(self.args # << >>, [name |-> self.name], "args", UserKeyword_decorate_args(self))
        d2 == PutIf(self.doc # "", d1, "doc", self.doc)
        d3 == PutIf(self.tags # { }, d2, "tags", self.tags)
        d4 == PutIf(~Falsy(self.timeout), d3, "timeout", self.timeout)
        d5 == PutIf(~FalsyInt(self.lineno), d4, "lineno", self.lineno)
        d6 == PutIf(~Falsy(self.error), d5, "error", self.error)
        d7 == PutIf(UserKeyword_has_setup(self), d6, "setup",
                    Keyword_to_dict(UserKeyword_setup(self)._setup[1]))
        d8 == Put(d7, "body", Body_to_dicts(self.body))
    IN  PutIf(UserKeyword_has_teardown(self), d8, "teardown",
              Keyword_to_dict(UserKeyword_teardown(self)._teardown[1]))

\* config(**data) with the setters of args, setup, teardown and body
UserKeyword_from_dict(data) ==
    LET body == Body_from_dicts("", IF "body" \in DOMAIN data THEN data.body ELSE << >>)
        plain == Config(UserKeywordDefaults, Keep(data, { "name", "doc", "tags", "timeout",
                                                          "lineno", "error" })).self
    IN  [self |-> [plain EXCEPT
                     !.args = IF "args" \in DOMAIN data THEN ParseArgs(data.args, FALSE) ELSE << >>,
                     !.body = body.selves,
                     !._setup = IF "setup" \in DOMAIN data
                                THEN << create_fixture(<< model_from_dict(KeywordDefaults,
                                                                           data.setup).self >>,
                                                       "SETUP") >>
                                ELSE << >>,
                     !._teardown = IF "teardown" \in DOMAIN data
                                   THEN << create_fixture(<< model_from_dict(KeywordDefaults,
                                                                              data.teardown).self >>,
                                                          "TEARDOWN") >>
                                   ELSE << >>],
         data |-> IF "body" \in DOMAIN data THEN Put(data, "body", body.dicts) ELSE data]

(***************************************************************************)
(* ResourceFile, TestCase and TestSuite.  A path is the text str() gives   *)
(* for it; Path(text) tidies the text.                                     *)
(***************************************************************************)
Path(text) ==
    CASE text = "" -> "."
      [] text = "dir//res.resource" -> "dir/res.resource"
      [] OTHER -> text

ResourceFileDefaults ==
    [_source |-> None, doc |-> "", imports |-> << >>, variables |-> << >>, keywords |-> << >>]

ResourceFile_to_dict(self) ==
    LET d1 == PutIf(self._source # None, EmptyDict, "source", self._source)
        d2 == PutIf(self.doc # "", d1, "doc", self.doc)
        d3 == PutIf(self.imports # << >>, d2, "imports",
                    [i \in 1..Len(self.imports) |-> Import_to_dict(self.imports[i])])
        d4 == PutIf(self.variables # << >>, d3, "variables",
                    [i \in 1..Len(self.variables) |-> Variable_to_dict(self.variables[i])])
    IN  PutIf(self.keywords # << >>, d4, "keywords",
              [i \in 1..Len(self.keywords) |-> UserKeyword_to_dict(self.keywords[i])])

\* config(**data) with the setters of source, imports, variables and keywords
ResourceFile_from_dict(data) ==
    LET get(key) == IF key \in DOMAIN data THEN data[key] ELSE << >>
        kws == [i \in 1..Len(get("keywords")) |-> UserKeyword_from_dict(data.keywords[i])]
    IN  [self |-> [_source |-> IF "source" \in DOMAIN data THEN Path(data.source) ELSE None,
                   doc |-> IF "doc" \in DOMAIN data THEN data.doc ELSE "",
                   imports |-> [i \in 1..Len(get("imports")) |->
                                   Import_from_dict(data.imports[i]).self],
                   variables |-> [i \in 1..Len(get("variables")) |->
                                     Variable_from_dict(data.variables[i]).self],
                   keywords |-> [i \in 1..Len(kws) |-> kws[i].self]],
         data |-> IF "keywords" \in DOMAIN data
                  THEN Put(data, "keywords", [i \in 1..Len(kws) |-> kws[i].data])
                  ELSE data]

TestCaseDefaults ==
    [name |-> "", doc |-> "", tags |-> { }, timeout |-> None, lineno |-> NoneInt,
     template |-> None, error |-> None, body |-> << >>]

\* robot.model.TestCase.to_dict: the attributes that differ from the defaults
model_TestCase_to_dict(self) ==
    LET keys == { k \in { "name", "doc", "tags", "timeout", "lineno" } :
                    self[k] # TestCaseDefaults[k] }
    IN  PutIf(self.body # << >>, [k \in keys |-> self[k]], "body", Body_to_dicts(self.body))

TestCase_to_dict(self) ==
    WithError(self, PutIf(~Falsy(self.template), model_TestCase_to_dict(self),
                          "template", self.template))

TestCase_from_dict(data) ==
    LET body == Body_from_dicts("", IF "body" \in DOMAIN data THEN data.body ELSE << >>)
    IN  [self |-> [Config(TestCaseDefaults, Drop(data, "body")).self EXCEPT !.body = body.selves],
         data |-> IF "body" \in DOMAIN data THEN Put(data, "body", body.dicts) ELSE data]

TestSuiteDefaults ==
    [name |-> "", doc |-> "", source |-> None, tests |-> << >>,
     resource |-> ResourceFileDefaults]

\* robot.model.TestSuite.to_dict: the attributes that differ from the defaults
model_TestSuite_to_dict(self) ==
    LET keys == { k \in { "name", "doc", "source" } : self[k] # TestSuiteDefaults[k] }
    IN  PutIf(self.tests # << >>, [k \in keys |-> self[k]], "tests",
              [i \in 1..Len(self.tests) |-> TestCase_to_dict(self.tests[i])])

\* the resource file is always in the record
TestSuite_to_dict(self) ==
    Put(model_TestSuite_to_dict(self), "resource", ResourceFile_to_dict(self.resource))

TestSuite_from_dict(data) ==
    LET get(key) == IF key \in DOMAIN data THEN data[key] ELSE << >>
        tests == [i \in 1..Len(get("tests")) |-> TestCase_from_dict(data.tests[i])]
        res == ResourceFile_from_dict(IF "resource" \in DOMAIN data THEN data.resource
                                      ELSE EmptyDict)
        d1 == IF "tests" \in DOMAIN data
              THEN Put(data, "tests", [i \in 1..Len(tests) |-> tests[i].data]) ELSE data
    IN  [self |-> [name |-> IF "name" \in DOMAIN data THEN data.name ELSE "",
                   doc |-> IF "doc" \in DOMAIN data THEN data.doc ELSE "",
                   source |-> IF "source" \in DOMAIN data THEN Path(data.source) ELSE None,
                   tests |-> [i \in 1..Len(tests) |-> tests[i].self],
                   resource |-> res.self],
         data |-> IF "resource" \in DOMAIN data THEN Put(d1, "resource", res.data) ELSE d1]

(***************************************************************************)
(* to_dict and from_dict by class                                          *)
(***************************************************************************)
Classes == { "BodyItem", "Variable", "Import", "UserKeyword", "ResourceFile",
             "TestCase", "TestSuite" }

to_dict(class, self) ==
    CASE class = "BodyItem" -> BodyItem_to_dict(self)
      [] class = "Variable" -> Variable_to_dict(self)
      [] class = "Import" -> Import_to_dict(self)
      [] class = "UserKeyword" -> UserKeyword_to_dict(self)
      [] class = "ResourceFile" -> ResourceFile_to_dict(self)
      [] class = "TestCase" -> TestCase_to_dict(self)
      [] class = "TestSuite" -> TestSuite_to_dict(self)

from_dict(class, data) ==
    CASE class = "BodyItem" -> BodyItem_from_dict("", data)
      [] class = "Variable" -> Variable_from_dict(data)
      [] class = "Import" -> Import_from_dict(data)
      [] class = "UserKeyword" -> UserKeyword_from_dict(data)
      [] class = "ResourceFile" -> ResourceFile_from_dict(data)
      [] class = "TestCase" -> TestCase_from_dict(data)
      [] class = "TestSuite" -> TestSuite_from_dict(data)

(***************************************************************************)
(* Objects and records the serialisation is run on                         *)
(***************************************************************************)
MaxCalls == 3

Linenos == { NoneInt, 3 }
NodeErrors == { None, "Invalid syntax" }

KeywordObjects ==
    { [KeywordDefaults EXCEPT !.name = "Log", !.args = a, !.assign = s, !.lineno = l] :
        a \in { << >>, << "msg" >> }, s \in { << >>, << "${r}" >> }, l \in Linenos }
    \cup { KeywordDefaults }

VarObjects ==
    { [VarDefaults EXCEPT !.name = "${x}", !.value = << "a", "b" >>, !.scope = sc,
                          !.separator = sep, !.lineno = l, !.error = e] :
        sc \in { None, "TEST" }, sep \in { None, "-" }, l \in Linenos, e \in NodeErrors }
    \cup { VarDefaults }

ReturnObjects ==
    { [ReturnDefaults EXCEPT !.values = v, !.lineno = l, !.error = e] :
        v \in { << >>, << "${r}" >> }, l \in Linenos, e \in NodeErrors }

JumpObjects ==
    { [d EXCEPT !.lineno = l, !.error = e] :
        d \in { ContinueDefaults, BreakDefaults }, l \in Linenos, e \in NodeErrors }

ErrorObjects ==
    { [ErrorDefaults EXCEPT !.values = v, !.lineno = l, !.error = e] :
        v \in { << >>, << "bad", "row" >> }, l \in Linenos, e \in { "", "Invalid syntax" } }

LeafObjects == KeywordObjects \cup VarObjects \cup ReturnObjects \cup JumpObjects \cup ErrorObjects

\* bodies of the nodes that have one
Bodies ==
    { << >>,
      << [KeywordDefaults EXCEPT !.name = "Log", !.lineno = 4] >>,
      << [VarDefaults EXCEPT !.name = "${x}", !.separator = "-"],
         [BreakDefaults EXCEPT !.error = "Invalid syntax"] >>,
      << [ErrorDefaults EXCEPT !.lineno = 5] >> }

ForObjects ==
    { [ForDefaults EXCEPT !.assign = a, !.flavor = f[1], !.values = << "x", "y" >>,
                          !.mode = f[2], !.fill = f[3], !.start = f[4],
                          !.lineno = l, !.error = e, !.body = b] :
        a \in { << >>, << "${i}" >>, << "${i}", "${j}" >> },
        f \in { << "IN", None, None, None >>, << "IN ZIP", "LONGEST", "-", None >>,
                << "IN ENUMERATE", None, None, "1" >> },
        l \in Linenos, e \in NodeErrors, b \in Bodies }
    \cup { ForDefaults }

WhileObjects ==
    { [WhileDefaults EXCEPT !.condition = c, !.limit = m[1], !.on_limit = m[2],
                            !.on_limit_message = m[3], !.lineno = l, !.error = e, !.body = b] :
        c \in { None, "$x < 3" },
        m \in { << None, None, None >>, << "5", "pass", "Enough" >> },
        l \in Linenos, e \in NodeErrors, b \in Bodies }

IfObjects ==
    { [IfDefaults EXCEPT !.lineno = l, !.error = e,
                         !.body = << [IfBranchDefaults EXCEPT !.condition = "$x", !.lineno = l,
                                                                !.body = b] >>
                                 \o (IF orelse
                                     THEN << [IfBranchDefaults EXCEPT !.type = "ELSE", !.body = b] >>
                                     ELSE << >>)] :
        l \in Linenos, e \in NodeErrors, b \in Bodies, orelse \in BOOLEAN }
    \cup { IfDefaults }

\* a nested FOR, to have a loop in the body of a branch
InnerFor == [ForDefaults EXCEPT !.assign = << "${k}" >>, !.values = << "1" >>]

TryObjects ==
    { [TryDefaults EXCEPT !.lineno = l, !.error = e,
                          !.body = << [TryBranchDefaults EXCEPT !.body = b, !.lineno = l],
                                      [TryBranchDefaults EXCEPT !.type = "EXCEPT",
                                                                !.patterns = p[1],
                                                                !.pattern_type = p[2],
                                                                !.assign = a,
                                                                !.body = << InnerFor >>] >>
                                   \o fin] :
        l \in Linenos, e \in NodeErrors, b \in Bodies,
        p \in { << << >>, None >>, << << "Err*" >>, "GLOB" >> },
        a \in { NoneSeq, << "${err}" >> },
        fin \in { << >>, << [TryBranchDefaults EXCEPT !.type = "FINALLY"] >> } }

BodyItemObjects ==
    LeafObjects \cup ForObjects \cup WhileObjects \cup IfObjects \cup TryObjects

VariableObjects ==
    { [VariableDefaults EXCEPT !.name = "${v}", !.value = v, !.separator = sep,
                               !.lineno = l, !.error = e] :
        v \in { << "a" >>, << "a", "b" >> }, sep \in { None, "-" },
        l \in Linenos, e \in NodeErrors }
    \cup { VariableDefaults }

ImportObjects ==
    { [type |-> t, name |-> "Lib", args |-> a, alias |-> al, lineno |-> l] :
        t \in { "LIBRARY", "RESOURCE", "VARIABLES" }, a \in { << >>, << "x" >> },
        al \in { None, "L" }, l \in Linenos }

ArgSpecs ==
    { << >>,
      << ArgInfo("POSITIONAL_OR_NAMED", "a", NOT_SET),
         ArgInfo("POSITIONAL_OR_NAMED", "b", "1") >>,
      << ArgInfo("POSITIONAL_OR_NAMED", "a", NOT_SET), ArgInfo("VAR_POSITIONAL", "v", NOT_SET),
         ArgInfo("NAMED_ONLY", "n", "2"), ArgInfo("VAR_NAMED", "k", NOT_SET) >>,
      << ArgInfo("NAMED_ONLY_MARKER", "", NOT_SET), ArgInfo("NAMED_ONLY", "n", NOT_SET) >> }

\* a setup or teardown slot: never read, read but not set, set
Fixtures(type) ==
    { << >>, << create_fixture(<< >>, type) >>,
      << [KeywordDefaults EXCEPT !.type = type, !.name = "Open", !.args = << "x" >>,
                                 !.lineno = 7] >> }

UserKeywordObjects ==
    { [UserKeywordDefaults EXCEPT !.name = "Login", !.args = a, !.doc = d[1], !.tags = d[2],
                                  !.timeout = d[3], !.lineno = d[4], !.error = d[5],
                                  !.body = b, !._setup = s, !._teardown = t] :
        a \in ArgSpecs,
        d \in { << "", { }, None, NoneInt, None >>,
                << "Logs in.", { "smoke" }, "1 min", 9, "Invalid syntax" >> },
        b \in { << >>, << InnerFor >> },
        s \in Fixtures("SETUP"), t \in Fixtures("TEARDOWN") }
    \cup { UserKeywordDefaults }

ResourceFileObjects ==
    { [_source |-> s, doc |-> d, imports |-> i, variables |-> v, keywords |-> k] :
        s \in { None, ".", "dir/res.resource" }, d \in { "", "Shared." },
        i \in { << >>, << [type |-> "LIBRARY", name |-> "Lib", args |-> << >>,
                           alias |-> None, lineno |-> 2] >> },
        v \in { << >>,
                << [VariableDefaults EXCEPT !.name = "${v}", !.value = << "a" >>] >>,
                << [VariableDefaults EXCEPT !.name = "${v}", !.value = << "a", "b" >>,
                                            !.separator = "-"] >> },
        k \in { << >>,
                << [UserKeywordDefaults EXCEPT !.name = "Login",
                                               !._teardown = << create_fixture(<< >>, "TEARDOWN") >>,
                                               !.body = << InnerFor >>] >> } }

TestCaseObjects ==
    { [TestCaseDefaults EXCEPT !.name = n, !.doc = d[1], !.tags = d[2], !.timeout = d[3],
                               !.lineno = d[4], !.template = tm, !.error = e, !.body = b] :
        n \in { "", "T1" },
        d \in { << "", { }, None, NoneInt >>, << "Doc", { "t" }, "1 s", 3 >> },
        tm \in { None, "Log" }, e \in NodeErrors, b \in Bodies \cup { << InnerFor >> } }

TestSuiteObjects ==
    { [name |-> n, doc |-> "", source |-> s, tests |-> t, resource |-> r] :
        n \in { "", "S" }, s \in { None, "dir/suite.robot" },
        t \in { << >>, << [TestCaseDefaults EXCEPT !.name = "T1", !.body = << InnerFor >>] >> },
        r \in { res \in ResourceFileObjects : res.doc = "" /\ res.imports = << >> } }

Objects(class) ==
    CASE class = "BodyItem" -> BodyItemObjects
      [] class = "Variable" -> VariableObjects
      [] class = "Import" -> ImportObjects
      [] class = "UserKeyword" -> UserKeywordObjects
      [] class = "ResourceFile" -> ResourceFileObjects
      [] class = "TestCase" -> TestCaseObjects
      [] class = "TestSuite" -> TestSuiteObjects

\* a record with the keys of Robot Framework 6.1: 'variables' for the
\* 'assign' of a FOR, 'variable' for the 'assign' of a TRY branch
RECURSIVE Legacy(_)
Legacy(data) ==
    LET inner == [k \in DOMAIN data |->
                    IF k \in { "body", "tests", "keywords" }
                    THEN [i \in 1..Len(data[k]) |-> Legacy(data[k][i])]
                    ELSE IF k = "resource" THEN Legacy(data[k])
                    ELSE data[k]]
    IN  IF "type" \in DOMAIN inner /\ "assign" \in DOMAIN inner /\ inner.type = "FOR"
        THEN Put(Drop(inner, "assign"), "variables", inner.assign)
        ELSE IF "type" \in DOMAIN inner /\ "assign" \in DOMAIN inner /\ inner.type \in BranchTypes
        THEN Put(Drop(inner, "assign"), "variable", inner.assign)
        ELSE inner

\* the records to_dict gives
Canonical(class) == { to_dict(class, o) : o \in Objects(class) }

\* a record with the keys of 6.1 replaced by 'assign'
RECURSIVE Renamed(_)
Renamed(data) ==
    LET inner == [k \in DOMAIN data |->
                    IF k \in { "body", "tests", "keywords" }
                    THEN [i \in 1..Len(data[k]) |-> Renamed(data[k][i])]
                    ELSE IF k = "resource" THEN Renamed(data[k])
                    ELSE data[k]]
    IN  IF "type" \in DOMAIN inner /\ "variables" \in DOMAIN inner /\ inner.type = "FOR"
        THEN Put(Drop(inner, "variables"), "assign", inner.variables)
        ELSE IF "type" \in DOMAIN inner /\ "variable" \in DOMAIN inner
                /\ inner.type \in BranchTypes
        THEN Put(Drop(inner, "variable"), "assign", inner.variable)
        ELSE inner

\* further records from_dict accepts: with the keys of 6.1, and with an
\* attribute to_dict does not write
Others(class) ==
    { Legacy(r) : r \in Canonical(class) }
    \cup (IF class = "Variable"
          THEN { [name |-> "${v}", value |-> << "a", "b" >>, separator |-> "-"] }
          ELSE { })

Records(class) == Canonical(class) \cup Others(class)

\* "canonical" for a record to_dict gives, "legacy" for such a record with
\* keys of 6.1, "other" for the rest
Form(class, r) ==
    IF r \in Canonical(class) THEN "canonical"
    ELSE IF Renamed(r) \in Canonical(class) THEN "legacy"
    ELSE "other"

NoObject == [absent |-> TRUE]
NoRecord == [absent |-> TRUE]

RunUnused ==
    /\ suite = Unused /\ dry_run = Unused /\ top_run = Unused /\ ti = Unused
    /\ stack = Unused /\ ret = Unused /\ variables = Unused /\ writes = Unused
    /\ reads = Unused /\ events = Unused /\ results = Unused

DictInit ==
    /\ RunUnused
    /\ HeapUnused
    /\ CallUnused
    /\ steps = << >>
    /\ \E c \in Classes :
         /\ cls = c
         /\ \/ \E o \in Objects(c) :
                 /\ first = [what |-> "object", form |-> "object", value |-> o]
                 /\ object = o
                 /\ record = NoRecord
            \/ \E r \in Records(c) :
                 /\ first = [what |-> "record", form |-> Form(c, r), value |-> r]
                 /\ object = NoObject
                 /\ record = r

\* record = object.to_dict()
ToDict ==
    /\ object # NoObject
    /\ Len(steps) < MaxCalls
    /\ record' = to_dict(cls, object)
    /\ steps' = Append(steps, "to_dict")
    /\ UNCHANGED << cls, first, object, runVars, heapVars, callVars >>

\* object = cls.from_dict(record)
FromDict ==
    /\ record # NoRecord
    /\ Len(steps) < MaxCalls
    /\ object' = from_dict(cls, record).self
    /\ record' = from_dict(cls, record).data
    /\ steps' = Append(steps, "from_dict")
    /\ UNCHANGED << cls, first, runVars, heapVars, callVars >>

DictNext ==
    \/ ToDict
    \/ FromDict

DictSpec == DictInit /\ [][DictNext]_vars

(***************************************************************************)
(* Round trips                                                             *)
(***************************************************************************)
\* the attributes of an object as they are read: reading setup or teardown
\* gives an object also when there was none
KeywordAttributes(kw) == UserKeyword_teardown(UserKeyword_setup(kw))

Attributes(class, self) ==
    CASE class = "UserKeyword" -> KeywordAttributes(self)
      [] class = "ResourceFile" ->
            [self EXCEPT !.keywords = [i \in 1..Len(@) |-> KeywordAttributes(@[i])]]
      [] class = "TestSuite" ->
            [self EXCEPT !.resource.keywords = [i \in 1..Len(@) |-> KeywordAttributes(@[i])]]
      [] OTHER -> self

RoundTripOfObject == first.what = "object" /\ steps = << "to_dict", "from_dict" >>

\* C13: an object built from the record to_dict gave for an object is equal
\* to that object in every attribute, lineno, error and the separator of a
\* variable included.
C13_ObjectRoundTrip ==
    RoundTripOfObject => Attributes(cls, object) = Attributes(cls, first.value)

\* the variables of a resource file, or the variable itself
VariablesIn(class, self) ==
    CASE class = "Variable" -> { self }
      [] class = "ResourceFile" -> { self.variables[i] : i \in 1..Len(self.variables) }
      [] class = "TestSuite" ->
            { self.resource.variables[i] : i \in 1..Len(self.resource.variables) }
      [] OTHER -> { }

\* objects without a variable that has a separator come back equal
RoundTripButSeparator ==
    (RoundTripOfObject /\ \A v \in VariablesIn(cls, first.value) : v.separator = None) =>
        Attributes(cls, object) = Attributes(cls, first.value)

\* a variable comes back equal but for its separator
SeparatorLost ==
    (RoundTripOfObject /\ cls = "Variable") =>
        /\ object.separator = None
        /\ [object EXCEPT !.separator = first.value.separator] = first.value

RebuiltFromRecord == first.what = "record" /\ steps = << "from_dict" >>
RoundTripOfRecord == first.what = "record" /\ steps = << "from_dict", "to_dict" >>

C14_WitnessCanonical ==
    /\ RoundTripOfRecord
    /\ first.form = "canonical"
    /\ cls = "BodyItem"
    /\ "type" \in DOMAIN first.value
    /\ first.value.type = "FOR"
    /\ "assign" \in DOMAIN first.value
    /\ first.value.assign = << "${i}", "${j}" >>
    /\ record = first.value

(***************************************************************************)
(* Defaults in records                                                     *)
(***************************************************************************)
\* the value is what the attribute is by default, or as good as that
IsDefault(key, value) ==
    CASE key = "lineno" -> FalsyInt(value)
      [] key \in { "error", "alias", "doc", "timeout", "template", "name", "scope",
                   "separator", "source" } -> Falsy(value)
      [] key = "assign" -> FalsySeq(value)
      [] key \in { "args", "body", "value", "values", "imports", "variables", "keywords",
                   "tests", "patterns" } -> value = << >>
      [] key = "tags" -> value = { }
      [] key = "resource" -> value = EmptyDict
      [] OTHER -> FALSE

\* the class of a record in a body
ClassIn(data) ==
    IF "type" \notin DOMAIN data THEN "Keyword"
    ELSE IF data.type = "ERROR" THEN "Error"
    ELSE "BodyItem"

\* the class of the records under a key
ClassUnder(key) ==
    CASE key = "imports" -> "Import"
      [] key = "variables" -> "Variable"
      [] key = "keywords" -> "UserKeyword"
      [] key = "tests" -> "TestCase"
      [] key = "resource" -> "ResourceFile"
      [] key \in { "setup", "teardown" } -> "Keyword"
      [] OTHER -> "BodyItem"

\* the fields with a default value in a record and in the records in it,
\* each with the class of its record
RECURSIVE Defaulted(_, _)
Defaulted(class, data) ==
    LET here == IF class = "BodyItem" THEN ClassIn(data) ELSE class
        lists == (DOMAIN data) \cap { "body", "imports", "variables", "keywords", "tests" }
        single == (DOMAIN data) \cap { "resource", "setup", "teardown" }
    IN  { << here, k >> : k \in { k \in DOMAIN data : IsDefault(k, data[k]) } }
        \cup UNION { UNION { Defaulted(ClassUnder(k), data[k][i]) : i \in 1..Len(data[k]) } :
                        k \in lists }
        \cup UNION { Defaulted(ClassUnder(k), data[k]) : k \in single }

Serialised == steps # << >> /\ Last(steps) = "to_dict"

\* C19 as stated: no field of a record to_dict gives, or of a record in it,
\* has a default value.
C19_Original == Serialised => Defaulted(cls, record) = { }

\* the fields that are in the record whatever their value
AlwaysThere ==
    { << "Error", "error" >>, << "UserKeyword", "name" >>, << "UserKeyword", "body" >>,
      << "Variable", "name" >>, << "Variable", "value" >>, << "TestSuite", "resource" >> }

\* C19 as amended: a field at its default is not in the record to_dict
\* gives, but for the error of an Error node, the name and body of a user
\* keyword, the name and value of a variable and the resource of a suite,
\* which are always there.
C19_OnlyNonDefaults ==
    Serialised =>
       /\ Defaulted(cls, record) \subseteq AlwaysThere
       /\ cls = "TestSuite" => "resource" \in DOMAIN record
       /\ cls = "UserKeyword" => { "name", "body" } \subseteq DOMAIN record
       /\ cls = "Variable" => { "name", "value" } \subseteq DOMAIN record
       /\ (cls = "BodyItem" /\ object.type = "ERROR") => "error" \in DOMAIN record

C19_Witness ==
    /\ Serialised
    /\ cls = "TestSuite"
    /\ record = [resource |-> EmptyDict]
    /\ object.tests = << >>
    /\ object.name = ""

\* a FOR with nothing set gives its type only
C19_WitnessFor ==
    /\ Serialised
    /\ cls = "BodyItem"
    /\ object = ForDefaults
    /\ record = [type |-> "FOR"]

(***************************************************************************)
(* User keywords of a resource file: names, embedded arguments, lookup,    *)
(* setup and teardown.  A name is the sequence of its characters, a        *)
(* variable such as ${user} being one item of it.                          *)
(***************************************************************************)
IsPlaceholder(c) == c \in { "${user}", "${n}" }

\* robot.utils.normalize(string, ignore='_'): no spaces, no underscores, lower case
normalize(string) ==
    StrLower(SelectSeq(string, LAMBDA c : c \notin { " ", "_" }))

\* robot.utils.eq(str1, str2, ignore='_')
eq(str1, str2) == normalize(str1) = normalize(str2)

\* EmbeddedArguments.from_name(name): nothing unless the name has a variable
EmbeddedArguments_from_name(name) ==
    IF \E i \in 1..Len(name) : IsPlaceholder(name[i]) THEN << name >> ELSE << >>

\* EmbeddedArguments.match(name): the pattern of the name, every variable
\* standing for any text, matched against the whole of name ignoring case
RECURSIVE FullMatch(_, _)
FullMatch(pattern, name) ==
    IF pattern = << >> THEN name = << >>
    ELSE IF IsPlaceholder(Head(pattern))
         THEN \E k \in 0..Len(name) : FullMatch(Tail(pattern), SubSeq(name, k + 1, Len(name)))
         ELSE /\ name # << >>
              /\ CharLower(Head(pattern)) = CharLower(Head(name))
              /\ FullMatch(Tail(pattern), Tail(name))

EmbeddedArguments_match(embedded, name) == FullMatch(embedded[1], name)

\* the name setter of UserKeyword
UserKeyword_name_NoEmbedded(self, name) == [self EXCEPT !.name = name]

UserKeyword_name(self, name) ==
    [self EXCEPT !.embedded = EmbeddedArguments_from_name(name), !.name = name]

UserKeyword_matches(self, name) ==
    IF self.embedded # << >> THEN EmbeddedArguments_match(self.embedded, name)
    ELSE eq(self.name, name)

UserKeyword_create_runner(self, name) ==
    IF self.embedded # << >> THEN [class |-> "EmbeddedArgumentsRunner", keyword |-> self, name |-> name]
    ELSE [class |-> "UserKeywordRunner", keyword |-> self, name |-> << >>]

\* the setters of setup and teardown: None, a Keyword object or a record
Fixture(setup) ==
    CASE setup.given = "None" -> << >>
      [] setup.given = "dict" -> << model_from_dict(KeywordDefaults, setup.value).self >>
      [] OTHER -> << setup.value >>

UserKeyword_set_setup(self, setup) ==
    [self EXCEPT !._setup = << create_fixture(Fixture(setup), "SETUP") >>]

UserKeyword_set_teardown(self, teardown) ==
    [self EXCEPT !._teardown = << create_fixture(Fixture(teardown), "TEARDOWN") >>]

RECURSIVE FindIn(_, _, _, _)
FindIn(kws, all, name, include_embedded) ==
    IF kws = << >> THEN << >>
    ELSE LET kw == all[Head(kws)]
             found == IF kw.embedded # << >>
                      THEN include_embedded /\ UserKeyword_matches(kw, name)
                      ELSE normalize(kw.name) = normalize(name)
         IN  (IF found THEN << Head(kws) >> ELSE << >>)
             \o FindIn(Tail(kws), all, name, include_embedded)

\* the keywords of self are given by their places in all
ResourceFile_find_keywords_EmbeddedAlways(self, all, name, include_embedded) ==
    FindIn(self.keywords, all, name, TRUE)

ResourceFile_find_keywords(self, all, name, include_embedded) ==
    FindIn(self.keywords, all, name, include_embedded)

(***************************************************************************)
(* Inputs: two keywords of one resource file, the names they are given,   *)
(* the names they are looked up with, and the fixtures assigned.           *)
(***************************************************************************)
KwIds == { "k1", "k2" }

LoginAs == << "L", "o", "g", "i", "n", " ", "a", "s", " " >>

KwNames ==
    { LoginAs \o << "${user}" >>,
      LoginAs \o << "a", "d", "m", "i", "n" >>,
      << "L", "o", "g", " ", "o", "u", "t" >>,
      << "l", "o", "g", "_", "o", "u", "t" >>,
      << "${n}", " ", "o", "u", "t" >> }

CallNames ==
    { LoginAs \o << "a", "d", "m", "i", "n" >>,
      << "l", "o", "g", "i", "n", "_", "A", "S", "_", "a", "d", "m", "i", "n" >>,
      << "L", "o", "g", "i", "n", " ", "a", "s" >>,
      << "L", "O", "G", "O", "U", "T" >>,
      << "L", "o", "g", " ", "o", "u", "t" >>,
      << "l", "o", "g", "i", "n", "_", "a", "s", "_", "${user}" >>,
      << "L", "o", "g" >> }

FixtureSlots == { "setup", "teardown" }

FixturesGiven ==
    { [given |-> "None", value |-> KeywordDefaults],
      [given |-> "Keyword", value |-> [KeywordDefaults EXCEPT !.name = "Open"]],
      [given |-> "Keyword", value |-> [KeywordDefaults EXCEPT !.name = None]],
      [given |-> "dict", value |-> [name |-> "Open"]] }

\* whether what is given has a name
Named(given) == given.given # "None" /\ given.value.name # None

\* UserKeyword.__init__; assigned notes what was last assigned to setup and
\* teardown from outside, which is no attribute of the object
NewUserKeyword(name, owner) ==
    UserKeyword_name([name |-> name, args |-> << >>, doc |-> "", tags |-> { },
                      timeout |-> None, lineno |-> NoneInt, error |-> None, body |-> << >>,
                      _setup |-> << >>, _teardown |-> << >>, embedded |-> << >>, owner |-> owner,
                      assigned |-> [setup |-> "never", teardown |-> "never"]],
                     name)

has_fixture(self, slot) ==
    IF slot = "setup" THEN UserKeyword_has_setup(self) ELSE UserKeyword_has_teardown(self)

read_fixture(self, slot) ==
    IF slot = "setup" THEN UserKeyword_setup(self) ELSE UserKeyword_teardown(self)

set_fixture(self, slot, given) ==
    LET set == IF slot = "setup" THEN UserKeyword_set_setup(self, given)
               ELSE UserKeyword_set_teardown(self, given)
    IN  [set EXCEPT !.assigned[slot] = IF Named(given) THEN "named" ELSE "unnamed"]

KeywordInit ==
    /\ RunUnused /\ DictUnused /\ CallUnused
    /\ suites = Unused /\ nodes = Unused
    /\ resources = [r \in { "r1" } |-> [_source |-> None, owner |-> None, keywords |-> << "k1", "k2" >>]]
    /\ keywords \in { [k \in KwIds |-> NewUserKeyword(IF k = "k1" THEN n1 ELSE n2, "r1")] :
                      n1 \in { LoginAs \o << "${user}" >>, << "L", "o", "g", " ", "o", "u", "t" >> },
                      n2 \in { << "L", "o", "g", " ", "o", "u", "t" >> } }
    /\ call = [op |-> "__init__"]

KeywordFixed == UNCHANGED << runVars, callVars, dictVars, suites, resources, nodes >>

SetName(k, name) ==
    /\ keywords' = [keywords EXCEPT ![k] = UserKeyword_name(@, name)]
    /\ call' = [op |-> "name", kw |-> k]
    /\ KeywordFixed

FindKeywords(name, include_embedded) ==
    /\ call' = [op |-> "find_keywords", name |-> name, include_embedded |-> include_embedded,
                found |-> ResourceFile_find_keywords(resources.r1, keywords, name, include_embedded)]
    /\ UNCHANGED keywords
    /\ KeywordFixed

Matches(k, name) ==
    /\ call' = [op |-> "matches", kw |-> k, name |-> name,
                matched |-> UserKeyword_matches(keywords[k], name)]
    /\ UNCHANGED keywords
    /\ KeywordFixed

CreateRunner(k, name) ==
    /\ call' = [op |-> "create_runner", kw |-> k, name |-> name,
                runner |-> UserKeyword_create_runner(keywords[k], name).class]
    /\ UNCHANGED keywords
    /\ KeywordFixed

HasFixture(slot) ==
    /\ call' = [op |-> "has", slot |-> slot, has |-> has_fixture(keywords.k1, slot)]
    /\ UNCHANGED keywords
    /\ KeywordFixed

ReadFixture(slot) ==
    /\ keywords' = [keywords EXCEPT !.k1 = read_fixture(@, slot)]
    /\ call' = [op |-> "read", slot |-> slot]
    /\ KeywordFixed

AssignFixture(slot, given) ==
    /\ keywords' = [keywords EXCEPT !.k1 = set_fixture(@, slot, given)]
    /\ call' = [op |-> "assign", slot |-> slot]
    /\ KeywordFixed

KeywordToDict ==
    /\ call' = [op |-> "to_dict", dict |-> UserKeyword_to_dict(keywords.k1)]
    /\ UNCHANGED keywords
    /\ KeywordFixed

KeywordNext ==
    \/ \E k \in KwIds, name \in KwNames : SetName(k, name)
    \/ \E name \in CallNames, include_embedded \in BOOLEAN : FindKeywords(name, include_embedded)
    \/ \E k \in KwIds, name \in CallNames : Matches(k, name)
    \/ \E k \in KwIds, name \in CallNames : CreateRunner(k, name)
    \/ \E slot \in FixtureSlots : HasFixture(slot)
    \/ \E slot \in FixtureSlots : ReadFixture(slot)
    \/ \E slot \in FixtureSlots, given \in FixturesGiven : AssignFixture(slot, given)
    \/ KeywordToDict

KeywordSpec == KeywordInit /\ [][KeywordNext]_vars

(***************************************************************************)
(* Keyword lookup, the two ways of matching, and lazy fixtures             *)
(***************************************************************************)
HasPlaceholder(name) == \E i \in 1..Len(name) : IsPlaceholder(name[i])

RECURSIVE Squeezed(_)
Squeezed(name) ==
    IF name = << >> THEN << >>
    ELSE IF Head(name) \in { " ", "_" } THEN Squeezed(Tail(name))
         ELSE << CharLower(Head(name)) >> \o Squeezed(Tail(name))

\* whether keyword k is to be found by name
Wanted(k, name, include_embedded) ==
    IF HasPlaceholder(keywords[k].name)
    THEN include_embedded /\ FullMatch(keywords[k].name, name)
    ELSE Squeezed(keywords[k].name) = Squeezed(name)

\* C11: find_keywords returns, in the order the keywords are declared in the
\* resource file, exactly the keywords that match the name: one without
\* variables in its name when the names are equal ignoring case, spaces and
\* underscores, one with variables when the pattern of its name matches the
\* name and embedded keywords are asked for.
C11_FindKeywords ==
    call.op = "find_keywords" =>
        call.found = SelectSeq(resources.r1.keywords,
                               LAMBDA k : Wanted(k, call.name, call.include_embedded))

C11_Witness ==
    /\ call.op = "find_keywords"
    /\ call.found = << "k1", "k2" >>
    /\ HasPlaceholder(keywords.k1.name)
    /\ ~HasPlaceholder(keywords.k2.name)

\* C12: a keyword is in embedded mode exactly when its name, as last
\* assigned, has a variable in it; matches, find_keywords and create_runner
\* then go by the pattern only, and by the normalised name only otherwise.
C12_OneMode ==
    /\ \A k \in KwIds : keywords[k].embedded # << >> <=> HasPlaceholder(keywords[k].name)
    /\ call.op = "matches" =>
           call.matched = IF HasPlaceholder(keywords[call.kw].name)
                          THEN FullMatch(keywords[call.kw].name, call.name)
                          ELSE Squeezed(keywords[call.kw].name) = Squeezed(call.name)
    /\ call.op = "create_runner" =>
           call.runner = IF HasPlaceholder(keywords[call.kw].name)
                         THEN "EmbeddedArgumentsRunner" ELSE "UserKeywordRunner"
    /\ call.op = "find_keywords" =>
           \A i \in 1..Len(call.found) :
               LET name == keywords[call.found[i]].name
               IN  IF HasPlaceholder(name) THEN FullMatch(name, call.name)
                   ELSE Squeezed(name) = Squeezed(call.name)

\* k2, first named Log out, has been given a name with a variable, and a
\* name equal to it but for underscores does not match it
C12_Witness ==
    /\ call.op = "matches" /\ call.kw = "k2"
    /\ HasPlaceholder(keywords.k2.name)
    /\ Squeezed(keywords.k2.name) = Squeezed(call.name)
    /\ ~call.matched

FixtureState(slot) ==
    LET kw == keywords.k1
    IN  /\ kw.assigned[slot] = "never" =>
               ~has_fixture(kw, slot) /\ slot \notin DOMAIN UserKeyword_to_dict(kw)
        /\ has_fixture(kw, slot) <=> kw.assigned[slot] = "named"
        /\ call.op = "to_dict" => (slot \in DOMAIN call.dict <=> kw.assigned[slot] = "named")

\* C18: has_setup and has_teardown make no object; a keyword that no setup
\* (teardown) was assigned to has none, whatever was read or serialised,
\* and to_dict writes none; it has one exactly when the last one assigned
\* had a name.
C18_LazyFixtures ==
    [][ /\ call'.op \in { "has", "to_dict" } => keywords' = keywords
        /\ \A slot \in FixtureSlots : FixtureState(slot)' ]_vars

\* setup was read, which made the object, and the keyword serialised
C18_Witness ==
    /\ keywords.k1.assigned.setup = "never"
    /\ keywords.k1._setup # << >>
    /\ call.op = "to_dict"

(***************************************************************************)
(* Suites, their resource files and what hangs below them.  Objects are    *)
(* known by their ids; a parent or owner link holds an id or None.         *)
(***************************************************************************)
SuiteIds == { "s1", "s2" }

\* robot.model.TestSuite.source: the path the suite was given
TestSuite_source(self) == suites[self].source

ResourceFile_source_OwnOnly(self) == resources[self]._source

ResourceFile_source(self) ==
    IF resources[self]._source # None THEN resources[self]._source
    ELSE IF resources[self].owner # None THEN TestSuite_source(resources[self].owner)
    ELSE None

UserKeyword_source(self) ==
    IF keywords[self].owner # None THEN ResourceFile_source(keywords[self].owner) ELSE None

Variable_source(self) ==
    IF nodes[self].owner # None THEN ResourceFile_source(nodes[self].owner) ELSE None

Import_source(self) ==
    IF nodes[self].owner # None THEN ResourceFile_source(nodes[self].owner) ELSE None

\* robot.model.TestCase.source
TestCase_source(self) ==
    IF nodes[self].parent # None THEN TestSuite_source(nodes[self].parent) ELSE None

RECURSIVE WithSource_source(_)
WithSource_source(self) ==
    LET parent == nodes[self].parent
    IN  CASE parent = None -> None
          [] parent \in DOMAIN keywords -> UserKeyword_source(parent)
          [] nodes[parent].class = "TestCase" -> TestCase_source(parent)
          [] OTHER -> WithSource_source(parent)

\* the source setter of ResourceFile
ResourceFile_set_source(self, source) ==
    [self EXCEPT !._source = IF source = None THEN None ELSE Path(source)]

\* the resource setter of TestSuite: what is stored, and the objects there
\* are after it; resource is an id, or a record that is built under id new
TestSuite_resource(self, resource, new) ==
    IF resource.given = "dict"
    THEN [resource |-> new,
          resources |-> [r \in DOMAIN resources \cup { new } |->
                            IF r = new
                            THEN [_source |-> ResourceFile_from_dict(resource.value).self._source,
                                  owner |-> self]
                            ELSE resources[r]]]
    ELSE [resource |-> resource.value, resources |-> resources]

(***************************************************************************)
(* Inputs: two suites with the resource files made for them, a resource   *)
(* file built on its own, a keyword, a variable, an import, a test, and    *)
(* a FOR with a VAR in its body.                                           *)
(***************************************************************************)
SuitePaths == { None, "a.robot" }
ResourcePaths == { None, "lib.resource" }
ResourceRecords == { [doc |-> "d"], [source |-> "lib.resource"] }

\* what a link of an object may be set to
Links(x) ==
    CASE x = "k1" -> { None, "r1", "r3" }
      [] x = "t1" -> { None, "s1" }
      [] x = "f1" -> { "k1", "t1" }
      [] x = "i1" -> { None, "f1" }

ResourceInit ==
    /\ RunUnused /\ DictUnused /\ CallUnused
    /\ suites \in { [s \in SuiteIds |->
                        [source |-> IF s = "s1" THEN p ELSE "b.robot",
                         resource |-> IF s = "s1" THEN "r1" ELSE "r2"]] : p \in SuitePaths }
    /\ resources \in { [r \in { "r1", "r2", "r3" } |->
                           CASE r = "r1" -> [_source |-> None, owner |-> "s1"]
                             [] r = "r2" -> [_source |-> None, owner |-> "s2"]
                             [] r = "r3" -> ResourceFile_set_source([_source |-> None,
                                                                     owner |-> None], p)] :
                       p \in ResourcePaths }
    /\ keywords = [k \in { "k1" } |-> NewUserKeyword(<< "L", "o", "g" >>, "r1")]
    /\ nodes = [x \in { "v1", "m1", "t1", "f1", "i1" } |->
                   CASE x = "v1" -> [class |-> "Variable", owner |-> "r1"]
                     [] x = "m1" -> [class |-> "Import", owner |-> "r3"]
                     [] x = "t1" -> [class |-> "TestCase", parent |-> "s1"]
                     [] x = "f1" -> [class |-> "For", parent |-> "t1"]
                     [] x = "i1" -> [class |-> "Var", parent |-> "f1"]]
    /\ call = [op |-> "__init__"]

SetSuiteSource(s, source) ==
    /\ suites' = [suites EXCEPT ![s].source = source]
    /\ call' = [op |-> "suite.source"]
    /\ UNCHANGED << runVars, callVars, dictVars, resources, keywords, nodes >>

SetResourceSource(r, source) ==
    /\ r \in DOMAIN resources
    /\ resources' = [resources EXCEPT ![r] = ResourceFile_set_source(@, source)]
    /\ call' = [op |-> "resource.source"]
    /\ UNCHANGED << runVars, callVars, dictVars, suites, keywords, nodes >>

\* suite.resource = resource; a record is built under the id r4, which is
\* free or held by nothing but this suite
AssignResource(s, resource) ==
    /\ resource.given = "ResourceFile" => resource.value \in DOMAIN resources
    /\ resource.given = "dict" =>
           /\ \A o \in SuiteIds \ { s } : suites[o].resource # "r4"
           /\ keywords.k1.owner # "r4"
    /\ LET set == TestSuite_resource(s, resource, "r4")
       IN  /\ suites' = [suites EXCEPT ![s].resource = set.resource]
           /\ resources' = set.resources
    /\ call' = [op |-> "suite.resource", given |-> resource.given, suite |-> s]
    /\ UNCHANGED << runVars, callVars, dictVars, keywords, nodes >>

SetOwner(k, owner) ==
    /\ keywords' = [keywords EXCEPT ![k].owner = owner]
    /\ call' = [op |-> "owner"]
    /\ UNCHANGED << runVars, callVars, dictVars, suites, resources, nodes >>

SetParent(x, parent) ==
    /\ nodes' = [nodes EXCEPT ![x].parent = parent]
    /\ call' = [op |-> "parent"]
    /\ UNCHANGED << runVars, callVars, dictVars, suites, resources, keywords >>

ResourceNext ==
    \/ \E s \in SuiteIds, source \in SuitePaths : SetSuiteSource(s, source)
    \/ \E r \in { "r1", "r3" }, source \in ResourcePaths : SetResourceSource(r, source)
    \/ \E s \in SuiteIds, r \in { "r1", "r2", "r3", "r4" } :
           AssignResource(s, [given |-> "ResourceFile", value |-> r])
    \/ \E s \in SuiteIds, data \in ResourceRecords :
           AssignResource(s, [given |-> "dict", value |-> data])
    \/ \E owner \in Links("k1") : SetOwner("k1", owner)
    \/ \E x \in { "t1", "f1", "i1" } : \E parent \in Links(x) : SetParent(x, parent)

ResourceSpec == ResourceInit /\ [][ResourceNext]_vars

(***************************************************************************)
(* Derived sources and the owner of a suite's resource file                *)
(***************************************************************************)
\* the path an object carries itself
Explicit(x) ==
    CASE x \in DOMAIN suites -> suites[x].source
      [] x \in DOMAIN resources -> resources[x]._source
      [] OTHER -> None

\* the object the parent or owner link of x leads to
LinkOf(x) ==
    CASE x \in DOMAIN suites -> None
      [] x \in DOMAIN resources -> resources[x].owner
      [] x \in DOMAIN keywords -> keywords[x].owner
      [] nodes[x].class \in { "Variable", "Import" } -> nodes[x].owner
      [] OTHER -> nodes[x].parent

\* the path of the nearest object on the chain from x that carries one
RECURSIVE Nearest(_)
Nearest(x) ==
    IF x = None THEN None
    ELSE IF Explicit(x) # None THEN Explicit(x)
    ELSE Nearest(LinkOf(x))

\* the source property of an object
SourceOf(x) ==
    CASE x \in DOMAIN resources -> ResourceFile_source(x)
      [] x \in DOMAIN keywords -> UserKeyword_source(x)
      [] nodes[x].class = "Variable" -> Variable_source(x)
      [] nodes[x].class = "Import" -> Import_source(x)
      [] nodes[x].class = "TestCase" -> TestCase_source(x)
      [] OTHER -> WithSource_source(x)

\* C15: the source of every body item, user keyword, import, variable and
\* resource file is the path carried by the nearest object on its chain of
\* parent and owner links, a resource file's own path coming before that of
\* the suite that owns it, and None when no object on the chain carries
\* one; this is so after every change of a path or of a link.
C15_SourceDerived ==
    \A x \in DOMAIN resources \cup DOMAIN keywords \cup DOMAIN nodes : SourceOf(x) = Nearest(x)

\* the keyword was moved to a resource file of its own path and the FOR
\* into the keyword: the VAR in the FOR has the path of that resource file;
\* the variable has the path of the suite that owns its resource file
C15_Witness ==
    /\ keywords.k1.owner = "r3" /\ nodes.f1.parent = "k1" /\ nodes.i1.parent = "f1"
    /\ resources.r3._source = "lib.resource"
    /\ SourceOf("i1") = "lib.resource"
    /\ resources.r1._source = None /\ SourceOf("v1") = "a.robot"
    /\ call.op = "suite.source"

\* C20: the resource file of every suite has that suite as its owner, after
\* construction and after every assignment to suite.resource, of a record
\* or of a ResourceFile object.
C20_ResourceOwned ==
    \A s \in SuiteIds :
        /\ suites[s].resource \in DOMAIN resources
        /\ resources[suites[s].resource].owner = s

\* the same after assignments of records only
C20_OwnedAfterRecord ==
    call.op = "suite.resource" /\ call.given = "dict" =>
        resources[suites[call.suite].resource].owner = call.suite

(***************************************************************************)
(* TestSuite.run, statement by statement.  LOGGER, the logging handler,    *)
(* STOP_SIGNAL_MONITOR and IMPORTER are objects shared by all calls; the   *)
(* settings, the output and the runner belong to one call.                 *)
(***************************************************************************)
MaxRuns == 2
MaxTests == 2

NoSettings == [kind |-> "None", console |-> "", log_level |-> ""]

\* the settings objects a caller passes
SettingsGiven == { [kind |-> "given", console |-> "quiet", log_level |-> "DEBUG"] }

\* the options a caller passes; BOGUS is no log level
OptionsGiven == { [console |-> co, loglevel |-> l] : co \in { "verbose", "dotted" },
                                                    l \in { "INFO", "BOGUS" } }

\* RobotSettings(options): fails on an option value it cannot use
RobotSettings(opts) ==
    IF opts.loglevel = "BOGUS" THEN [kind |-> "DataError", console |-> "", log_level |-> ""]
    ELSE [kind |-> "built", console |-> opts.console, log_level |-> opts.loglevel]

\* if not settings
not_settings(s) == s.kind = "None"

At(at) == pc.at = at
Goto(at) == pc' = [pc EXCEPT !.at = at]
Did(what) == trace' = trace \o what

CallInit ==
    /\ RunUnused /\ DictUnused /\ HeapUnused
    /\ pc = [at |-> "idle", exc |-> FALSE]
    /\ settings = NoSettings
    /\ options = [console |-> "verbose", loglevel |-> "INFO"]
    /\ output = << >>
    /\ runner = << >>
    /\ globals = [calls |-> 0, LOGGER |-> 0, console_loggers |-> << >>, handler |-> << >>,
                  STOP_SIGNAL_MONITOR |-> FALSE, IMPORTER |-> 0, outputs |-> << >>]
    /\ trace = << >>
    /\ returned = << >>

CallFixed == UNCHANGED << runVars, dictVars, heapVars >>

\* suite.run(settings, **options) / suite.run(**options)
CallRun(s, opts) ==
    /\ At("idle") /\ globals.calls < MaxRuns
    /\ pc' = [at |-> "with LOGGER", exc |-> FALSE]
    /\ settings' = s /\ options' = opts
    /\ output' = << >> /\ runner' = << >>
    /\ globals' = [globals EXCEPT !.calls = @ + 1]
    /\ trace' = << IF s.kind = "None" THEN "run(**options)" ELSE "run(settings)" >>
    /\ UNCHANGED returned
    /\ CallFixed

EnterLogger ==
    /\ At("with LOGGER")
    /\ globals' = [globals EXCEPT !.LOGGER = @ + 1]
    /\ Did(<< "LOGGER.__enter__" >>)
    /\ Goto("if not settings")
    /\ UNCHANGED << settings, options, output, runner, returned >>
    /\ CallFixed

BuildSettings ==
    /\ At("if not settings")
    /\ IF not_settings(settings)
       THEN IF RobotSettings(options).kind = "DataError"
            THEN /\ pc' = [at |-> "LOGGER.__exit__", exc |-> TRUE]
                 /\ Did(<< "DataError" >>)
                 /\ UNCHANGED << settings, globals >>
            ELSE /\ settings' = RobotSettings(options)
                 /\ globals' = [globals EXCEPT !.console_loggers = Append(@, settings'.console)]
                 /\ Did(<< "RobotSettings", "register_console_logger" >>)
                 /\ Goto("with robot_handler_enabled")
       ELSE /\ Goto("with robot_handler_enabled")
            /\ UNCHANGED << settings, globals, trace >>
    /\ UNCHANGED << options, output, runner, returned >>
    /\ CallFixed

EnableHandler ==
    /\ At("with robot_handler_enabled")
    /\ globals' = [globals EXCEPT !.handler = << settings.log_level >>]
    /\ Did(<< "robot_handler_enabled" >>)
    /\ Goto("with STOP_SIGNAL_MONITOR")
    /\ UNCHANGED << settings, options, output, runner, returned >>
    /\ CallFixed

EnterMonitor ==
    /\ At("with STOP_SIGNAL_MONITOR")
    /\ globals' = [globals EXCEPT !.STOP_SIGNAL_MONITOR = TRUE]
    /\ Did(<< "STOP_SIGNAL_MONITOR.__enter__" >>)
    /\ Goto("IMPORTER.reset")
    /\ UNCHANGED << settings, options, output, runner, returned >>
    /\ CallFixed

ResetImporter ==
    /\ At("IMPORTER.reset")
    /\ globals' = [globals EXCEPT !.IMPORTER = @ + 1]
    /\ Did(<< "IMPORTER.reset" >>)
    /\ Goto("Output")
    /\ UNCHANGED << settings, options, output, runner, returned >>
    /\ CallFixed

CreateOutput ==
    /\ At("Output")
    /\ globals' = [globals EXCEPT !.outputs = Append(@, [settings |-> settings, closed |-> << >>])]
    /\ output' = << Len(globals.outputs) + 1 >>
    /\ Did(<< "Output" >>)
    /\ Goto("SuiteRunner")
    /\ UNCHANGED << settings, options, runner, returned >>
    /\ CallFixed

CreateSuiteRunner ==
    /\ At("SuiteRunner")
    /\ runner' = << [output |-> output[1], settings |-> settings, result |-> NoneInt, left |-> 0] >>
    /\ Did(<< "SuiteRunner" >>)
    /\ Goto("visit")
    /\ UNCHANGED << settings, options, output, globals, returned >>
    /\ CallFixed

\* self.visit(runner): the runner starts the suite, which makes its result,
\* runs the tests and ends the suite
StartSuite(n) ==
    /\ At("visit")
    /\ runner' = << [runner[1] EXCEPT !.result = globals.calls, !.left = n] >>
    /\ Did(<< "start_suite" >>)
    /\ Goto("tests")
    /\ UNCHANGED << settings, options, output, globals, returned >>
    /\ CallFixed

VisitTest ==
    /\ At("tests") /\ runner[1].left > 0
    /\ runner' = << [runner[1] EXCEPT !.left = @ - 1] >>
    /\ Did(<< "visit_test" >>)
    /\ UNCHANGED << pc, settings, options, output, globals, returned >>
    /\ CallFixed

EndSuite ==
    /\ At("tests") /\ runner[1].left = 0
    /\ Did(<< "end_suite" >>)
    /\ Goto("STOP_SIGNAL_MONITOR.__exit__")
    /\ UNCHANGED << settings, options, output, runner, globals, returned >>
    /\ CallFixed

\* the traversal is given up with an exception
VisitRaises ==
    /\ At("tests") /\ runner[1].left > 0
    /\ pc' = [at |-> "STOP_SIGNAL_MONITOR.__exit__", exc |-> TRUE]
    /\ Did(<< "Exception" >>)
    /\ UNCHANGED << settings, options, output, runner, globals, returned >>
    /\ CallFixed

ExitMonitor ==
    /\ At("STOP_SIGNAL_MONITOR.__exit__")
    /\ globals' = [globals EXCEPT !.STOP_SIGNAL_MONITOR = FALSE]
    /\ Did(<< "STOP_SIGNAL_MONITOR.__exit__" >>)
    /\ Goto(IF pc.exc THEN "robot_handler_enabled.__exit__" ELSE "output.close")
    /\ UNCHANGED << settings, options, output, runner, returned >>
    /\ CallFixed

CloseOutput_InMonitor ==
    /\ At("tests") /\ runner[1].left = 0 /\ "output.close" \notin { trace[i] : i \in 1..Len(trace) }
    /\ globals' = [globals EXCEPT !.outputs[output[1]].closed = Append(@, runner[1].result)]
    /\ Did(<< "output.close" >>)
    /\ UNCHANGED << pc, settings, options, output, runner, returned >>
    /\ CallFixed

CloseOutput ==
    /\ At("output.close")
    /\ globals' = [globals EXCEPT !.outputs[output[1]].closed = Append(@, runner[1].result)]
    /\ Did(<< "output.close" >>)
    /\ Goto("robot_handler_enabled.__exit__")
    /\ UNCHANGED << settings, options, output, runner, returned >>
    /\ CallFixed

DisableHandler ==
    /\ At("robot_handler_enabled.__exit__")
    /\ globals' = [globals EXCEPT !.handler = << >>]
    /\ Did(<< "robot_handler_enabled.__exit__" >>)
    /\ Goto("LOGGER.__exit__")
    /\ UNCHANGED << settings, options, output, runner, returned >>
    /\ CallFixed

ExitLogger ==
    /\ At("LOGGER.__exit__")
    /\ globals' = [globals EXCEPT !.LOGGER = @ - 1]
    /\ Did(<< "LOGGER.__exit__" >>)
    /\ Goto(IF pc.exc THEN "raise" ELSE "return")
    /\ UNCHANGED << settings, options, output, runner, returned >>
    /\ CallFixed

ReturnResult ==
    /\ At("return")
    /\ returned' = Append(returned, [how |-> "return", value |-> runner[1].result])
    /\ Did(<< "return" >>)
    /\ Goto("idle")
    /\ UNCHANGED << settings, options, output, runner, globals >>
    /\ CallFixed

Propagate ==
    /\ At("raise")
    /\ returned' = Append(returned, [how |-> "raise", value |-> NoneInt])
    /\ Did(<< "raise" >>)
    /\ Goto("idle")
    /\ UNCHANGED << settings, options, output, runner, globals >>
    /\ CallFixed

CallNext ==
    \/ \E s \in SettingsGiven \cup { NoSettings }, opts \in OptionsGiven : CallRun(s, opts)
    \/ EnterLogger
    \/ BuildSettings
    \/ EnableHandler
    \/ EnterMonitor
    \/ ResetImporter
    \/ CreateOutput
    \/ CreateSuiteRunner
    \/ \E n \in 0..MaxTests : StartSuite(n)
    \/ VisitTest
    \/ EndSuite
    \/ VisitRaises
    \/ ExitMonitor
    \/ CloseOutput
    \/ DisableHandler
    \/ ExitLogger
    \/ ReturnResult
    \/ Propagate

CallSpec == CallInit /\ [][CallNext]_vars

(***************************************************************************)
(* The order of the steps of TestSuite.run                                 *)
(***************************************************************************)
Places(what) == { i \in 1..Len(trace) : trace[i] = what }
Done(what) == Places(what) # { }

\* every a comes before every b
AllBefore(a, b) == \A i \in Places(a), j \in Places(b) : i < j

\* there is no b without an a before it
NotWithout(a, b) == \A j \in Places(b) : \E i \in Places(a) : i < j

Traversal == { "start_suite", "visit_test", "end_suite" }

\* C21: on every call of TestSuite.run, settings are built from the options
\* and the console logger registered only when no settings are given; the
\* importer is reset and the output made before the traversal starts; the
\* stop signal monitor is active during the whole traversal and released
\* before the output is closed; when the traversal has completed, the
\* output is closed exactly once, with the result of the runner, and run
\* returns that result.
C21_RunOrder ==
    /\ trace # << >> =>
           /\ Done("RobotSettings") \/ Done("register_console_logger") => trace[1] = "run(**options)"
           /\ trace[1] = "run(**options)" /\ Done("robot_handler_enabled") =>
                  Done("RobotSettings") /\ Done("register_console_logger") /\ settings.kind = "built"
           /\ trace[1] = "run(settings)" => settings \in SettingsGiven
    /\ NotWithout("IMPORTER.reset", "start_suite") /\ NotWithout("Output", "start_suite")
    /\ pc.at \in { "visit", "tests" } => globals.STOP_SIGNAL_MONITOR
    /\ \A e \in Traversal :
           /\ NotWithout("STOP_SIGNAL_MONITOR.__enter__", e)
           /\ AllBefore(e, "STOP_SIGNAL_MONITOR.__exit__")
    /\ NotWithout("STOP_SIGNAL_MONITOR.__exit__", "output.close")
    /\ Cardinality(Places("output.close")) <= 1
    /\ Done("end_suite") /\ (Done("return") \/ Done("raise")) =>
           /\ Done("return")
           /\ Cardinality(Places("output.close")) = 1
           /\ globals.outputs[output[1]].closed = << runner[1].result >>
           /\ runner[1].result = globals.calls
           /\ returned[Len(returned)] = [how |-> "return", value |-> runner[1].result]

\* the second call, made without settings, has run two tests and returned
C21_Witness ==
    /\ Len(returned) = 2
    /\ trace[1] = "run(**options)"
    /\ Cardinality(Places("visit_test")) = 2
    /\ Done("end_suite") /\ Done("return")
    /\ pc.at = "idle"

====
